---- MODULE Spec2Model ----
(***************************************************************************)
(* Verification model of the GIA autonomous research pipeline.             *)
(*                                                                         *)
(*   Part I   scripts/gia_autonomous_runner.py : the orchestrator          *)
(*            (run_autonomous_pipeline, execute_phase, DualLogger, main).  *)
(*   Part II  src/llm/edison_client.py : the literature client and its     *)
(*            process-wide request deduplication map.                      *)
(*   Part III src/citations/accuracy_gate.py : the citation accuracy gate. *)
(*   Part IV  the pre-flight purge of the runner.                          *)
(*   Part V   the environment of a phase child.                            *)
(*   Part VI  the bibliography build and DOI normalization.                *)
(*   Part VII the DOI resolver with its fallback provider.                 *)
(*   Part VIII the revision loop and its convergence criteria.            *)
(*   Part IX  the deliberation step and its consolidation.                 *)
(*   Part X   the numeric-consistency check of verify_claim.               *)
(*   Part XI  the BibTeX keys of LiteratureResult.to_bibtex.               *)
(*   Part XII the numeric fields of CitationAccuracyGateConfig.            *)
(*   Part XIII the phase scripts run_workflow.py and the like.             *)
(*   Part XIV  verify_claim on a statement and its evidence text.          *)
(*   Part XV   the provider response of a literature search.               *)
(*   Part XVI  the critical review of an agent result.                     *)
(*   Part XVII the injection of the generated sections into main.tex.      *)
(*                                                                         *)
(* Each part has its own specification; the variables of the other parts   *)
(* keep their initial values.                                              *)
(***************************************************************************)
EXTENDS Integers, Sequences, FiniteSets, TLC

(***************************************************************************)
(* Bounds of the model.                                                    *)
(***************************************************************************)
\* events observed during one run: output lines of the children, gate
\* evaluations inside the children and abnormal executor paths (script
\* missing, spawn failure, child that closes its output and lives on)
MaxEvents == 1
\* the phase clock is not advanced beyond this many seconds
MaxElapsed == 7200

\* granularity of the phase clock, in seconds
TickSeconds == 1800
\* calls made to the literature client
MaxCalls == 2
\* advances of the literature client's clock
MaxTicks == 2
\* source_backed claims in claims/claims.json
MaxClaims == 2
\* last second of the clock of the purge model
MaxClock == 1
\* pre-flight purges run on the project folder
MaxPurges == 3
\* distinct values an environment variable takes
NumEnvValues == 2
\* citation records given to one bibliography build
MaxRecords == 3
\* pieces of a DOI string given to normalize_doi
MaxDoiLen == 3
\* largest max_iterations of a ConvergenceCriteria
MaxIterationsLimit == 3
\* agents of one deliberation fan-out
MaxAgents == 3
\* atoms of a claim statement in the numeric-consistency check
MaxTextLen == 3
\* citations of one LiteratureResult
MaxEntries == 3
\* entries of result.errors of a workflow
MaxWorkflowErrors == 2
\* elements of a list returned by the provider
MaxResponses == 2
\* lines of paper/main.tex before the first assembly
MaxLines == 3
\* runs of assemble_paper on one project
MaxAssemblies == 2

(***************************************************************************)
(* Part I.  Program constants of the runner.                               *)
(***************************************************************************)
PIPELINE_PHASES ==
  << [script |-> "run_workflow.py",             phase_id |-> "phase_1",
      phase_name |-> "Research Workflow (Intake)", is_critical |-> TRUE],
     [script |-> "run_literature_workflow.py",  phase_id |-> "phase_2",
      phase_name |-> "Literature Workflow",        is_critical |-> FALSE],
     [script |-> "run_gap_resolution.py",       phase_id |-> "phase_3",
      phase_name |-> "Gap Resolution Workflow",    is_critical |-> FALSE],
     [script |-> "run_writing_review_stage.py", phase_id |-> "phase_4",
      phase_name |-> "Writing Review Stage",       is_critical |-> FALSE],
     [script |-> "run_paper_assembly.py",       phase_id |-> "phase_5a",
      phase_name |-> "Paper Assembly",             is_critical |-> FALSE],
     [script |-> "run_paper_compile.py",        phase_id |-> "phase_5b",
      phase_name |-> "Paper Compilation",          is_critical |-> FALSE] >>

NumPhases == Len(PIPELINE_PHASES)

DEFAULT_PHASE_TIMEOUT == 3600

\* exit codes a phase child may return by itself
ChildExitCodes == {0, 1}

\* The shapes of an output line that the monitor distinguishes: the set of
\* keywords found in the upper-cased line and, for a DEGRADATION/DEGRADED
\* line, the reason _extract_degradation_reason returns ("" when the
\* extracted group strips to nothing).
LineShapes ==
  { [kw |-> {},              reason |-> ""],
    [kw |-> {"ERROR"},       reason |-> ""],
    [kw |-> {"WARNING"},     reason |-> ""],
    [kw |-> {"CRITICAL"},    reason |-> ""],
    [kw |-> {"DEGRADATION"}, reason |-> "r"],
    [kw |-> {"DEGRADATION"}, reason |-> ""] }

(***************************************************************************)
(* Citation accuracy gate: the action of a GateResult, as computed by      *)
(* check_citation_accuracy_gate from the configuration and the number of   *)
(* failed claims.                                                          *)
(***************************************************************************)
\* variant: a failing gate blocks whatever on_failure says
GateAction_BlockOnAnyFailure(enabled, on_failure, failed) ==
  IF ~enabled THEN "disabled"
  ELSE IF failed > 0 THEN "block" ELSE "pass"

GateAction(enabled, on_failure, failed) ==
  IF ~enabled THEN "disabled"
  ELSE IF failed > 0
       THEN (IF on_failure = "block" THEN "block" ELSE "downgrade")
       ELSE "pass"

GateOk(enabled, on_failure, failed) ==
  ~(enabled /\ failed > 0 /\ on_failure = "block")

(***************************************************************************)
(* State of one runner process.                                            *)
(***************************************************************************)
VARIABLES
  pc,                  \* position of the runner
  project_exists,      \* project_folder.exists()
  dry_run,             \* command line flag --dry-run
  idx,                 \* index into PIPELINE_PHASES of the current phase
  phases,              \* pipeline_result.phases
  overall_success,     \* pipeline_result.overall_success
  degradation_summary, \* pipeline_result.degradation_summary
  logger,              \* counters and degradation_reasons of the DualLogger
  child,               \* state of the current phase child
  child_exit,          \* exit code of the child once it has exited
  elapsed,             \* seconds since start_time of the current phase
  waited,              \* seconds spent in process.wait(timeout)
  events,              \* events observed so far in this run
  gates,               \* gate results produced while the phases ran
  started,             \* phase ids in the order their execution began
  project_files,       \* report files present in the project folder
  exit_status          \* exit code of the runner process, "none" before

runnerVars ==
  << pc, project_exists, dry_run, idx, phases, overall_success,
     degradation_summary, logger, child, child_exit, elapsed, waited, events,
     gates, started, project_files, exit_status >>

\* State of the literature client (Part II).
VARIABLES
  now,                 \* time.time(), in seconds
  ticks,               \* number of advances of the clock so far
  available,           \* self._client is not None
  init_error,          \* self._init_error, "" for None
  active_requests,     \* _active_requests: fingerprint -> time, Absent if none
  lock,                \* holder of _request_lock, 0 when free
  calls                \* the calls to search_literature(_sync), by call id

litVars ==
  << now, ticks, available, init_error, active_requests, lock, calls >>

\* State of one evaluation of the citation accuracy gate (Part III).
VARIABLES
  gate_mode,           \* mode given to default_gate_config, "custom" if the
                       \* context was not built from the defaults
  gate_context,        \* context.get("citation_accuracy_gate")
  gate_claims,         \* the valid source_backed records of claims/claims.json
  evidence_map,        \* evidence ids found in sources/*/evidence.json
  gate_pc,             \* "ready", then "returned" or "raised"
  gate_result,         \* the result dict of check_citation_accuracy_gate
  gate_span,           \* the gate.* attributes set on the current trace span
  gate_files           \* the files under outputs/gates of the project folder

gateVars ==
  << gate_mode, gate_context, gate_claims, evidence_map, gate_pc, gate_result,
     gate_span, gate_files >>

\* State of a project folder under the pre-flight purge (Part IV).
VARIABLES
  clock,               \* datetime.now(timezone.utc), in whole seconds
  outputs,             \* outputs/: "absent", "empty" or "full"
  archives,            \* archives/outputs_archive_<second>: what it holds
  pycache,             \* some __pycache__ directory or .pyc file exists
  temp_items,          \* temp/ has entries
  purges,              \* purges run so far
  streak,              \* successful purges since the folder was last written
  last_archived        \* archive second returned by the last purge

purgeVars ==
  << clock, outputs, archives, pycache, temp_items, purges, streak,
     last_archived >>

\* State of the construction of two phase child environments (Part V).
VARIABLES
  parent_env,          \* os.environ of two parent processes
  child_env,           \* the environment built for the child of each
  built                \* the parents that have built their child's env

envVars == << parent_env, child_env, built >>

\* State of one bibliography build and of one DOI under normalization
\* (Part VI).
VARIABLES
  bib_records,         \* the citation records given to the build, in order
  bib_pc,              \* "ready", then "built"
  bib_survivors,       \* the records that survive deduplication
  bib_dropped,         \* pairs << dropped key, key of its survivor >>
  doi_trace            \* a DOI string followed by its successive normal forms

bibVars == << bib_records, bib_pc, bib_survivors, bib_dropped, doi_trace >>

\* State of one call of resolve_doi_to_record_with_fallback (Part VII).
VARIABLES
  res_existing,        \* existing_record, its verification block included
  res_max_age,         \* policy.max_age_hours
  res_now,             \* now, in hours
  res_pc,              \* "start", "primary", "secondary", then "done"
  res_calls,           \* the provider calls made, in order, with how each ended
  res_record           \* the record returned

resVars ==
  << res_existing, res_max_age, res_now, res_pc, res_calls, res_record >>

\* State of one revision loop driven by ConvergenceCriteria (Part VIII).
VARIABLES
  conv_criteria,       \* the ConvergenceCriteria of the loop
  conv_iteration,      \* the iteration about to be reviewed, from 1
  conv_has_previous,   \* previous_score is not None
  conv_previous_score, \* quality score of the iteration before, in hundredths
  conv_pc,             \* "revising", then "stopped"
  conv_last            \* the last evaluation of should_stop

convVars ==
  << conv_criteria, conv_iteration, conv_has_previous, conv_previous_score,
     conv_pc, conv_last >>

\* State of two deliberations over the same agent outputs (Part IX).
VARIABLES
  delib_outputs,       \* the content each agent produces, by agent id
  delib_collected,     \* per run: the perspectives in completion order
  delib_result         \* per run: the consolidated result, NoConsensus before

delibVars == << delib_outputs, delib_collected, delib_result >>

\* State of one numeric-consistency check of verify_claim (Part X).
VARIABLES
  num_enabled,         \* cfg.enable_numeric_consistency
  num_statement,       \* the claim statement, as a sequence of atoms
  num_evidence,        \* evidence_text, as a sequence of atoms
  num_pc,              \* "ready", then "checked"
  num_claim_nums,      \* claim_nums
  num_evidence_nums,   \* evidence_nums
  num_ok               \* numeric_ok

numVars ==
  << num_enabled, num_statement, num_evidence, num_pc, num_claim_nums,
     num_evidence_nums, num_ok >>

\* State of one call of LiteratureResult.to_bibtex (Part XI).
VARIABLES
  bibtex_citations,    \* self.citations: first author and year of each entry
  used_keys,           \* used_keys
  bibtex_keys          \* the keys of the entries written so far, in order

keyVars == << bibtex_citations, used_keys, bibtex_keys >>

\* State of one call of CitationAccuracyGateConfig.from_context on a context
\* entry with numeric fields (Part XII).
VARIABLES
  cfg_raw,             \* context.get("citation_accuracy_gate")
  cfg_pc,              \* "ready", then "returned" or "raised"
  cfg_result           \* the configuration returned

cfgVars == << cfg_raw, cfg_pc, cfg_result >>

\* State of one phase script run as the child of execute_phase (Part XIII).
VARIABLES
  script_phase,        \* index into PIPELINE_PHASES of the phase
  script_has_folder,   \* len(sys.argv) >= 2
  workflow_result,     \* what workflow.run(project_folder) gives
  script_pc,           \* "start", "exited", then "recorded"
  script_exit,         \* exit code of the script
  script_lines,        \* the lines the script printed
  script_record,       \* the PhaseResult the runner records
  script_halted        \* the runner left the phase loop after this phase

scriptVars ==
  << script_phase, script_has_folder, workflow_result, script_pc, script_exit,
     script_lines, script_record, script_halted >>

\* State of one call of CitationAccuracyVerifier.verify_claim (Part XIV).
VARIABLES
  ver_cfg,             \* the CitationAccuracyGateConfig of the verifier
  ver_statement,       \* the statement of the claim
  ver_evidence,        \* the evidence text
  ver_keyword_overlap, \* _jaccard of the tokens, in thousandths
  ver_entity_overlap,  \* _jaccard of the named entities, in thousandths
  ver_pc,              \* "ready", then "verified"
  ver_report           \* the report returned

verVars ==
  << ver_cfg, ver_statement, ver_evidence, ver_keyword_overlap,
     ver_entity_overlap, ver_pc, ver_report >>

\* State of the response handling of one literature search (Part XV).
VARIABLES
  task_response,       \* what the provider call returned
  norm_sync,           \* the search is search_literature_sync
  norm_pc,             \* "answered", then "returned"
  literature_result    \* the LiteratureResult returned

normVars == << task_response, norm_sync, norm_pc, literature_result >>

\* State of one call of CriticalReviewAgent.review_agent_result (Part XVI).
VARIABLES
  review_content,      \* result.content of the reviewed AgentResult
  claude_outcome,      \* what _call_claude does: raises, or a response
  review_pc,           \* "ready", "executed", then "returned"
  review_result,       \* the AgentResult of execute
  review_feedback      \* the FeedbackResponse returned

reviewVars ==
  << review_content, claude_outcome, review_pc, review_result,
     review_feedback >>

\* State of paper/main.tex under assemble_paper (Part XVII).
VARIABLES
  paper_main,          \* the text of paper/main.tex
  inject_results,      \* input, output, changed and error code of every
                       \* inject_generated_sections_into_main so far
  paper_issues         \* the issue codes of the last assemble_paper

paperVars == << paper_main, inject_results, paper_issues >>

\* the parts I to V and the parts after them
coreVars == << runnerVars, litVars, gateVars, purgeVars, envVars >>
extVars == << bibVars, resVars, convVars, delibVars, numVars, keyVars, cfgVars, scriptVars, verVars, normVars, reviewVars, paperVars >>

vars == << coreVars, extVars >>

\* what the actions of each part leave alone
nonRunnerVars == << litVars, gateVars, purgeVars, envVars, extVars >>
nonLitVars == << runnerVars, gateVars, purgeVars, envVars, extVars >>
nonGateVars == << runnerVars, litVars, purgeVars, envVars, extVars >>
nonPurgeVars == << runnerVars, litVars, gateVars, envVars, extVars >>
nonEnvVars == << runnerVars, litVars, gateVars, purgeVars, extVars >>
nonBibVars ==
  << coreVars, resVars, convVars, delibVars, numVars, keyVars, cfgVars, scriptVars, verVars, normVars, reviewVars, paperVars >>
nonResVars ==
  << coreVars, bibVars, convVars, delibVars, numVars, keyVars, cfgVars, scriptVars, verVars, normVars, reviewVars, paperVars >>
nonConvVars ==
  << coreVars, bibVars, resVars, delibVars, numVars, keyVars, cfgVars, scriptVars, verVars, normVars, reviewVars, paperVars >>
nonDelibVars ==
  << coreVars, bibVars, resVars, convVars, numVars, keyVars, cfgVars, scriptVars, verVars, normVars, reviewVars, paperVars >>
nonNumVars ==
  << coreVars, bibVars, resVars, convVars, delibVars, keyVars, cfgVars, scriptVars, verVars, normVars, reviewVars, paperVars >>
nonKeyVars ==
  << coreVars, bibVars, resVars, convVars, delibVars, numVars, cfgVars, scriptVars, verVars, normVars, reviewVars, paperVars >>
nonCfgVars ==
  << coreVars, bibVars, resVars, convVars, delibVars, numVars, keyVars, scriptVars, verVars, normVars, reviewVars, paperVars >>
nonScriptVars ==
  << coreVars, bibVars, resVars, convVars, delibVars, numVars, keyVars, cfgVars, verVars, normVars, reviewVars, paperVars >>
nonVerVars ==
  << coreVars, bibVars, resVars, convVars, delibVars, numVars, keyVars, cfgVars, scriptVars, normVars, reviewVars, paperVars >>
nonNormVars ==
  << coreVars, bibVars, resVars, convVars, delibVars, numVars, keyVars, cfgVars, scriptVars, verVars, reviewVars, paperVars >>
nonReviewVars ==
  << coreVars, bibVars, resVars, convVars, delibVars, numVars, keyVars, cfgVars, scriptVars, verVars, normVars, paperVars >>
nonPaperVars ==
  << coreVars, bibVars, resVars, convVars, delibVars, numVars, keyVars, cfgVars, scriptVars, verVars, normVars, reviewVars >>

(***************************************************************************)
(* PhaseResult and DualLogger.                                             *)
(***************************************************************************)
PhaseResult(i, success, exit_code, degraded, reasons, ec, wc, cc) ==
  [ phase_id            |-> PIPELINE_PHASES[i].phase_id,
    phase_name          |-> PIPELINE_PHASES[i].phase_name,
    success             |-> success,
    exit_code           |-> exit_code,
    degraded            |-> degraded,
    degradation_reasons |-> reasons,
    error_count         |-> ec,
    warning_count       |-> wc,
    critical_count      |-> cc ]

\* PhaseResult built on the three early/exceptional returns of execute_phase:
\* all other fields keep their dataclass defaults.
FailedPhaseResult(i) ==
  PhaseResult(i, FALSE, -1, FALSE, << >>, 1, 0, 0)

NewLogger ==
  [ error_count |-> 0, warning_count |-> 0, critical_count |-> 0,
    degradation_reasons |-> << >> ]

reset_counts(lg) ==
  [ lg EXCEPT !.error_count = 0, !.warning_count = 0, !.critical_count = 0 ]

process_output_line(lg, line, phase_id) ==
  [ lg EXCEPT
      !.error_count    = @ + (IF "ERROR" \in line.kw THEN 1 ELSE 0),
      !.warning_count  = @ + (IF "WARNING" \in line.kw THEN 1 ELSE 0),
      !.critical_count = @ + (IF "CRITICAL" \in line.kw THEN 1 ELSE 0),
      !.degradation_reasons =
          IF "DEGRADATION" \in line.kw /\ line.reason # ""
          THEN Append(@, << phase_id, line.reason >>) ELSE @ ]

(***************************************************************************)
(* run_autonomous_pipeline: the body of the phase loop that follows the    *)
(* return of execute_phase with PhaseResult r for phase idx.               *)
(***************************************************************************)
\* sum(1 for p in phases if p.success) / (... if p.degraded)
SuccessfulCount(ps) == Cardinality({ k \in 1..Len(ps) : ps[k].success })
DegradedCount(ps) == Cardinality({ k \in 1..Len(ps) : ps[k].degraded })

\* variant: the loop is left on every failed phase, critical or not
LoopBody_BreakOnAnyFailure(r) ==
  /\ phases' = Append(phases, r)
  /\ degradation_summary' = degradation_summary \o r.degradation_reasons
  /\ IF ~r.success
     THEN /\ overall_success' = FALSE
          /\ pc' = "post"
          /\ idx' = idx
     ELSE /\ overall_success' = overall_success
          /\ idx' = idx + 1
          /\ pc' = IF idx = NumPhases THEN "post" ELSE "loop"
  /\ child_exit' = 0
  /\ elapsed' = 0
  /\ waited' = 0

LoopBody(r) ==
  /\ phases' = Append(phases, r)
  /\ degradation_summary' = degradation_summary \o r.degradation_reasons
  /\ IF ~r.success /\ PIPELINE_PHASES[idx].is_critical
     THEN /\ overall_success' = FALSE
          /\ pc' = "post"
          /\ idx' = idx
     ELSE /\ overall_success' =
                (IF ~r.success /\ ~r.degraded THEN FALSE ELSE overall_success)
          /\ idx' = idx + 1
          /\ pc' = IF idx = NumPhases THEN "post" ELSE "loop"
  /\ child_exit' = 0
  /\ elapsed' = 0
  /\ waited' = 0

(***************************************************************************)
(* Initial state: the runner has been invoked on some project folder.      *)
(***************************************************************************)
InitRunner ==
  /\ pc = "start"
  /\ project_exists \in BOOLEAN
  /\ dry_run \in BOOLEAN
  /\ idx = 1
  /\ phases = << >>
  /\ overall_success = TRUE
  /\ degradation_summary = << >>
  /\ logger = NewLogger
  /\ child = "none"
  /\ child_exit = 0
  /\ elapsed = 0
  /\ waited = 0
  /\ events = 0
  /\ gates = << >>
  /\ started = << >>
  /\ project_files = {}
  /\ exit_status = "none"

(***************************************************************************)
(* run_autonomous_pipeline, up to the phase loop.                          *)
(***************************************************************************)
\* the project folder is validated; a missing folder returns at once
Validate ==
  /\ pc = "start"
  /\ IF ~project_exists
     THEN /\ overall_success' = FALSE
          /\ pc' = "returned"
     ELSE /\ overall_success' = overall_success
          /\ pc' = "preflight"
  /\ UNCHANGED << project_exists, dry_run, idx, phases, degradation_summary,
                  logger, child, child_exit, elapsed, waited, events, gates,
                  started, project_files, exit_status >>
  /\ UNCHANGED nonRunnerVars

\* pre-flight purge unless --skip-purge (it touches bytecode caches, temp/
\* and outputs/, none of which this part of the model keeps), then the
\* dry-run return
Preflight ==
  /\ pc = "preflight"
  /\ pc' = IF dry_run THEN "returned" ELSE "loop"
  /\ UNCHANGED << project_exists, dry_run, idx, phases, overall_success,
                  degradation_summary, logger, child, child_exit, elapsed,
                  waited, events, gates, started, project_files, exit_status >>
  /\ UNCHANGED nonRunnerVars

(***************************************************************************)
(* execute_phase.                                                          *)
(***************************************************************************)
\* script_path.exists() is false: a failed PhaseResult, counters untouched
ScriptMissing ==
  /\ pc = "loop"
  /\ events < MaxEvents
  /\ events' = events + 1
  /\ started' = Append(started, PIPELINE_PHASES[idx].phase_id)
  /\ LoopBody(FailedPhaseResult(idx))
  /\ UNCHANGED << project_exists, dry_run, logger, child, gates,
                  project_files, exit_status >>
  /\ UNCHANGED nonRunnerVars

\* reset_counts, then subprocess.Popen raises: the generic except branch
SpawnFails ==
  /\ pc = "loop"
  /\ events < MaxEvents
  /\ events' = events + 1
  /\ started' = Append(started, PIPELINE_PHASES[idx].phase_id)
  /\ logger' = reset_counts(logger)
  /\ LoopBody(FailedPhaseResult(idx))
  /\ UNCHANGED << project_exists, dry_run, child, gates, project_files,
                  exit_status >>
  /\ UNCHANGED nonRunnerVars

\* reset_counts, start_time taken, the child is spawned and the parent
\* enters stream_subprocess_output
Spawn ==
  /\ pc = "loop"
  /\ started' = Append(started, PIPELINE_PHASES[idx].phase_id)
  /\ logger' = reset_counts(logger)
  /\ child' = "running"
  /\ elapsed' = 0
  /\ waited' = 0
  /\ pc' = "stream"
  /\ UNCHANGED << project_exists, dry_run, idx, phases, overall_success,
                  degradation_summary, child_exit, events, gates,
                  project_files, exit_status >>
  /\ UNCHANGED nonRunnerVars

\* the child prints a line; the parent, blocked in readline, hands it to
\* logger.process_output_line
ChildEmitsLine ==
  /\ pc = "stream"
  /\ child = "running"
  /\ events < MaxEvents
  /\ \E line \in LineShapes :
       logger' = process_output_line(logger, line, PIPELINE_PHASES[idx].phase_id)
  /\ events' = events + 1
  /\ UNCHANGED << pc, project_exists, dry_run, idx, phases, overall_success,
                  degradation_summary, child, child_exit, elapsed, waited,
                  gates, started, project_files, exit_status >>
  /\ UNCHANGED nonRunnerVars

\* a workflow inside the child evaluates the citation accuracy gate
ChildEvaluatesGate ==
  /\ pc = "stream"
  /\ child = "running"
  /\ events < MaxEvents
  /\ events' = events + 1
  /\ \E enabled \in BOOLEAN, on_failure \in {"block", "downgrade"}, failed \in 0..1 :
       gates' = Append(gates,
                  [ phase  |-> PIPELINE_PHASES[idx].phase_id,
                    action |-> GateAction(enabled, on_failure, failed),
                    ok     |-> GateOk(enabled, on_failure, failed) ])
  /\ UNCHANGED << pc, project_exists, dry_run, idx, phases, overall_success,
                  degradation_summary, logger, child, child_exit, elapsed,
                  waited, started, project_files, exit_status >>
  /\ UNCHANGED nonRunnerVars

\* the child terminates (its end of the pipe closes with it)
ChildExits ==
  /\ child \in {"running", "detached"}
  /\ \E code \in ChildExitCodes : child_exit' = code
  /\ child' = "exited"
  /\ UNCHANGED << pc, project_exists, dry_run, idx, phases, overall_success,
                  degradation_summary, logger, elapsed, waited, events, gates,
                  started, project_files, exit_status >>
  /\ UNCHANGED nonRunnerVars

\* the child closes its stdout/stderr but keeps running
ChildClosesOutput ==
  /\ pc = "stream"
  /\ child = "running"
  /\ events < MaxEvents
  /\ events' = events + 1
  /\ child' = "detached"
  /\ UNCHANGED << pc, project_exists, dry_run, idx, phases, overall_success,
                  degradation_summary, logger, child_exit, elapsed, waited,
                  gates, started, project_files, exit_status >>
  /\ UNCHANGED nonRunnerVars

\* readline returns "": stream_subprocess_output returns and the parent
\* calls process.wait(timeout=timeout)
StreamEnds ==
  /\ pc = "stream"
  /\ child \in {"exited", "detached"}
  /\ pc' = "wait"
  /\ waited' = 0
  /\ UNCHANGED << project_exists, dry_run, idx, phases, overall_success,
                  degradation_summary, logger, child, child_exit, elapsed,
                  events, gates, started, project_files, exit_status >>
  /\ UNCHANGED nonRunnerVars

\* Time passes while the child is alive.  Nothing bounds the time spent in
\* stream_subprocess_output; process.wait(timeout) lets at most the timeout
\* pass.  The phase clock saturates at MaxElapsed.
Min(a, b) == IF a <= b THEN a ELSE b

Tick ==
  /\ child \in {"running", "detached"}
  /\ \/ pc = "stream" /\ elapsed < MaxElapsed /\ waited' = waited
     \/ pc = "wait" /\ waited < DEFAULT_PHASE_TIMEOUT
                    /\ waited' = waited + TickSeconds
  /\ elapsed' = Min(elapsed + TickSeconds, MaxElapsed)
  /\ UNCHANGED << pc, project_exists, dry_run, idx, phases, overall_success,
                  degradation_summary, logger, child, child_exit, events,
                  gates, started, project_files, exit_status >>
  /\ UNCHANGED nonRunnerVars

\* process.wait returns the exit code: the PhaseResult of the normal path
NormalPhaseResult(i, exit_code, lg) ==
  LET success == exit_code = 0
      degraded == Len(lg.degradation_reasons) > 0
                    \/ (~success /\ lg.error_count > 0)
  IN PhaseResult(i, success, exit_code, degraded, lg.degradation_reasons,
                 lg.error_count, lg.warning_count, lg.critical_count)

WaitReturns ==
  /\ pc = "wait"
  /\ child = "exited"
  /\ logger' = [ logger EXCEPT !.degradation_reasons = << >> ]
  /\ LoopBody(NormalPhaseResult(idx, child_exit, logger))
  /\ UNCHANGED << project_exists, dry_run, child, events, gates, started,
                  project_files, exit_status >>
  /\ UNCHANGED nonRunnerVars

\* variant: the timed-out child is not killed
TimeoutExpired_NoKill ==
  /\ pc = "wait"
  /\ child = "detached"
  /\ waited >= DEFAULT_PHASE_TIMEOUT
  /\ LoopBody(FailedPhaseResult(idx))
  /\ UNCHANGED << project_exists, dry_run, logger, child, events, gates,
                  started, project_files, exit_status >>
  /\ UNCHANGED nonRunnerVars

\* subprocess.TimeoutExpired: process.kill() and a failed PhaseResult
TimeoutExpired ==
  /\ pc = "wait"
  /\ child = "detached"
  /\ waited >= DEFAULT_PHASE_TIMEOUT
  /\ LoopBody(FailedPhaseResult(idx))
  /\ child' = "killed"
  /\ UNCHANGED << project_exists, dry_run, logger, events, gates, started,
                  project_files, exit_status >>
  /\ UNCHANGED nonRunnerVars

(***************************************************************************)
(* run_autonomous_pipeline after the loop, and main.                       *)
(***************************************************************************)
\* variant: a strict majority is required for a partial success
FinalOverallSuccess_StrictMajority(ps, current) ==
  LET successful_phases == SuccessfulCount(ps)
      total_phases      == Len(ps)
      degraded_phases   == DegradedCount(ps)
  IN IF successful_phases = total_phases /\ degraded_phases = 0 THEN TRUE
     ELSE IF successful_phases > 0
          THEN 2 * successful_phases > total_phases
          ELSE current

FinalOverallSuccess(ps, current) ==
  LET successful_phases == SuccessfulCount(ps)
      total_phases      == Len(ps)
      degraded_phases   == DegradedCount(ps)
  IN IF successful_phases = total_phases /\ degraded_phases = 0 THEN TRUE
     ELSE IF successful_phases > 0
          THEN successful_phases >= (total_phases \div 2)
          ELSE current

PostRun ==
  /\ pc = "post"
  /\ overall_success' = FinalOverallSuccess(phases, overall_success)
  /\ project_files' = project_files \cup {"autonomous_run_result.json"}
  /\ pc' = "returned"
  /\ UNCHANGED << project_exists, dry_run, idx, phases, degradation_summary,
                  logger, child, child_exit, elapsed, waited, events, gates,
                  started, exit_status >>
  /\ UNCHANGED nonRunnerVars

ExitCode(success) == IF success THEN 0 ELSE 1

Exit ==
  /\ pc = "returned"
  /\ exit_status' = ExitCode(overall_success)
  /\ pc' = "done"
  /\ UNCHANGED << project_exists, dry_run, idx, phases, overall_success,
                  degradation_summary, logger, child, child_exit, elapsed,
                  waited, events, gates, started, project_files >>
  /\ UNCHANGED nonRunnerVars

(***************************************************************************)
(* Part II.  The literature client (src/llm/edison_client.py).             *)
(***************************************************************************)
\* the dedup window of search_literature, in seconds
DEDUP_WINDOW == 1800

\* stop_after_attempt(3) of the retry decorator
MAX_ATTEMPTS == 3

\* the clock advances by one second or by the dedup window
TimeSteps == {1, DEDUP_WINDOW}

Calls == 1..MaxCalls
Queries == {"qa"}
Contexts == {"", "ctx"}

\* full_query as built from query and context ("if context:")
FullQuery(query, context) ==
  IF context # "" THEN << query, "Context", context >> ELSE << query >>

\* query_hash: the first 16 hex digits of SHA-256(full_query); distinct full
\* queries of the model have distinct fingerprints
QueryHash(full_query) == << "sha256_16", full_query >>

Fingerprints ==
  { QueryHash(FullQuery(q, x)) : q \in Queries, x \in Contexts }

\* The coroutines share one event loop: while one of them is inside a locked
\* block (which contains no await) no other coroutine takes a step, so the
\* lock is free whenever a coroutine reaches "async with request_lock" and
\* is acquired without suspension.  search_literature_sync blocks the
\* thread until the provider has answered.
MayStep(c) ==
  /\ lock \in {0, c}
  /\ \A d \in Calls \ {c} : calls[d].st # "sync_awaiting"

Absent == -1

IdleCall ==
  [ st |-> "idle", mode |-> "async", query |-> "qa", context |-> "",
    query_hash |-> QueryHash(FullQuery("qa", "")),
    attempts |-> 0,           \* provider attempts of the running call
    last_error |-> "",        \* class of the error the last attempt raised
    status |-> "none", error |-> "",
    submitted_at |-> Absent,  \* when search_literature registered the call
    ended_at |-> Absent ]     \* when search_literature returned after it

InitLitVars ==
  /\ now = 0
  /\ ticks = 0
  /\ active_requests = [ h \in Fingerprints |-> Absent ]
  /\ lock = 0
  /\ calls = [ c \in Calls |-> IdleCall ]

\* a call the provider is working on
InFlight(c) == calls[c].st \in {"awaiting", "sync_awaiting"}

\* variant: an entry exactly as old as the window is deleted too
CleanExpired_Inclusive(reqs, current_time) ==
  [ h \in DOMAIN reqs |->
      IF reqs[h] # Absent /\ current_time - reqs[h] >= DEDUP_WINDOW
      THEN Absent ELSE reqs[h] ]

\* "Clean up old entries": the entries older than the window are deleted
CleanExpired(reqs, current_time) ==
  [ h \in DOMAIN reqs |->
      IF reqs[h] # Absent /\ current_time - reqs[h] > DEDUP_WINDOW
      THEN Absent ELSE reqs[h] ]

\* EdisonClient.__init__: the provider client is built only when a key is
\* there and the constructor does not raise; the text of a constructor
\* error is kept
ApiKeys == {"", "key"}
ConstructorErrors == {"", "auth failed"}

EdisonClient_init(api_key, ctor_error) ==
  [ client_built |-> api_key # "" /\ ctor_error = "",
    init_error |-> IF api_key # "" THEN ctor_error ELSE "" ]

\* "self._init_error or ..." of the FAILED result of an unavailable client
UnavailableError(err) ==
  IF err # "" THEN err ELSE "Edison API client not configured"

\* variant: the synchronous entry point does not test self._client
FirstStep_SyncUnchecked(client_built, m) ==
  IF m = "sync" THEN "sync_awaiting"
  ELSE IF ~client_built THEN "done" ELSE "in_lock"

\* where a call stands after its first statements: returned for a client
\* without provider, else in the first locked block (async) or submitted
\* (sync)
FirstStep(client_built, m) ==
  IF ~client_built THEN "done"
  ELSE IF m = "async" THEN "in_lock" ELSE "sync_awaiting"

\* search_literature / search_literature_sync is called: without a provider
\* client both return FAILED with the captured initialisation error;
\* otherwise the async path enters its first locked block and the sync path
\* submits to the provider at once
StartCall(c) ==
  /\ calls[c].st = "idle"
  /\ MayStep(c)
  /\ \A d \in Calls : d < c => calls[d].st # "idle"
  /\ \E q \in Queries, x \in Contexts, m \in {"async", "sync"} :
       LET first == FirstStep(available, m)
       IN /\ calls' = [ calls EXCEPT ![c] =
            [ @ EXCEPT
                !.mode = m, !.query = q, !.context = x,
                !.query_hash = QueryHash(FullQuery(q, x)),
                !.st = first,
                !.status = IF ~available THEN "FAILED" ELSE "none",
                !.error = IF ~available THEN UnavailableError(init_error)
                          ELSE "",
                !.attempts = IF first = "sync_awaiting" THEN 1 ELSE 0,
                !.submitted_at = Absent,
                !.ended_at = Absent ] ]
          /\ lock' = IF first = "in_lock" THEN c ELSE lock
  /\ UNCHANGED << now, ticks, available, init_error, active_requests >>
  /\ UNCHANGED nonLitVars

\* variant: the provider call is made inside the locked block
CheckAndRegister_AwaitInLock(c) ==
  /\ calls[c].st = "in_lock"
  /\ lock = c
  /\ LET cleaned == CleanExpired(active_requests, now)
         h == calls[c].query_hash
     IN IF cleaned[h] # Absent
        THEN /\ active_requests' = cleaned
             /\ calls' = [ calls EXCEPT ![c] =
                  [ @ EXCEPT !.st = "done", !.status = "FAILED",
                             !.error = "Duplicate request blocked" ] ]
        ELSE /\ active_requests' = [ cleaned EXCEPT ![h] = now ]
             /\ calls' = [ calls EXCEPT ![c] =
                  [ @ EXCEPT !.st = "awaiting", !.attempts = 1,
                             !.submitted_at = now ] ]
  /\ lock' = IF CleanExpired(active_requests, now)[calls[c].query_hash] # Absent
             THEN 0 ELSE c
  /\ UNCHANGED << now, ticks, available, init_error >>
  /\ UNCHANGED nonLitVars

\* the body of the first locked block: clean-up, duplicate check and
\* registration; leaving the block releases the lock, and a registered call
\* goes on to its first provider attempt
CheckAndRegister(c) ==
  /\ calls[c].st = "in_lock"
  /\ lock = c
  /\ LET cleaned == CleanExpired(active_requests, now)
         h == calls[c].query_hash
     IN IF cleaned[h] # Absent
        THEN /\ active_requests' = cleaned
             /\ calls' = [ calls EXCEPT ![c] =
                  [ @ EXCEPT !.st = "done", !.status = "FAILED",
                             !.error = "Duplicate request blocked" ] ]
        ELSE /\ active_requests' = [ cleaned EXCEPT ![h] = now ]
             /\ calls' = [ calls EXCEPT ![c] =
                  [ @ EXCEPT !.st = "awaiting", !.attempts = 1,
                             !.submitted_at = now ] ]
  /\ lock' = 0
  /\ UNCHANGED << now, ticks, available, init_error >>
  /\ UNCHANGED nonLitVars

\* the provider answers: COMPLETED; the async path enters the locked block
\* of its finally clause
ProviderReturns(c) ==
  /\ InFlight(c)
  /\ MayStep(c)
  /\ calls' = [ calls EXCEPT ![c] =
       [ @ EXCEPT !.status = "COMPLETED", !.attempts = 0, !.last_error = "",
                  !.st = IF calls[c].mode = "async"
                         THEN "finally_in_lock" ELSE "done" ] ]
  /\ lock' = IF calls[c].mode = "async" THEN c ELSE lock
  /\ UNCHANGED << now, ticks, available, init_error, active_requests >>
  /\ UNCHANGED nonLitVars

\* variant: every error of the provider call is retried
ShouldRetry_AnyError(mode, kind, attempts) ==
  /\ mode = "async"
  /\ attempts < MAX_ATTEMPTS

\* the retry decorator of _make_edison_request: retry_if_exception_type(
\* (ConnectionError, TimeoutError, OSError)) and stop_after_attempt(3);
\* search_literature_sync calls the provider without it
ShouldRetry(mode, kind, attempts) ==
  /\ mode = "async"
  /\ kind = "transport"
  /\ attempts < MAX_ATTEMPTS

\* the provider call raises.  The async path retries a transport-class
\* error until MAX_ATTEMPTS attempts were made; every other outcome is
\* re-raised into "except Exception" and becomes a FAILED result.  The sync
\* path does not retry.
ProviderRaises(c) ==
  /\ InFlight(c)
  /\ MayStep(c)
  /\ \E kind \in {"transport", "other"} :
       IF ShouldRetry(calls[c].mode, kind, calls[c].attempts)
       THEN /\ calls' = [ calls EXCEPT ![c] =
                 [ @ EXCEPT !.attempts = @ + 1, !.last_error = kind ] ]
            /\ lock' = lock
       ELSE /\ calls' = [ calls EXCEPT ![c] =
                 [ @ EXCEPT !.status = "FAILED", !.error = "provider_error",
                            !.attempts = 0, !.last_error = "",
                            !.st = IF calls[c].mode = "async"
                                   THEN "finally_in_lock" ELSE "done" ] ]
            /\ lock' = IF calls[c].mode = "async" THEN c ELSE lock
  /\ UNCHANGED << now, ticks, available, init_error, active_requests >>
  /\ UNCHANGED nonLitVars

\* the finally block: the entry, if still present, is stamped with the
\* completion time; the call then returns its result
Restamp(c) ==
  /\ calls[c].st = "finally_in_lock"
  /\ lock = c
  /\ active_requests' =
       IF active_requests[calls[c].query_hash] # Absent
       THEN [ active_requests EXCEPT ![calls[c].query_hash] = now ]
       ELSE active_requests
  /\ calls' = [ calls EXCEPT ![c] = [ @ EXCEPT !.st = "done", !.ended_at = now ] ]
  /\ lock' = 0
  /\ UNCHANGED << now, ticks, available, init_error >>
  /\ UNCHANGED nonLitVars

\* time passes
LitTick ==
  /\ ticks < MaxTicks
  /\ lock = 0
  /\ \E d \in TimeSteps : now' = now + d
  /\ ticks' = ticks + 1
  /\ UNCHANGED << available, init_error, active_requests, lock, calls >>
  /\ UNCHANGED nonLitVars

(***************************************************************************)
(* Part III.  The citation accuracy gate (src/citations/accuracy_gate.py)  *)
(* and the default gate configuration (src/pipeline/defaults.py).          *)
(* Scores and thresholds are in thousandths.                               *)
(***************************************************************************)
EvidenceIds == {"e1", "e2"}

\* jaccard overlaps of a statement with its evidence text: below
\* min_keyword_overlap, between the two thresholds, above both
KeywordOverlaps == {50, 100, 300}

\* A source_backed claim: the non-blank string entries of its evidence_ids
\* (empty when the field is absent, not a list or has no such entry) and what
\* the scoring of its statement against the evidence text yields.
ClaimShapes ==
  [ evidence_ids : SUBSET EvidenceIds,
    keyword_overlap : KeywordOverlaps,
    entity_overlap : {1000},
    numeric_ok : {TRUE} ]

\* sequences of at most n elements of S
RECURSIVE SeqsUpTo(_, _)
SeqsUpTo(S, n) ==
  IF n = 0 THEN { << >> }
  ELSE LET shorter == SeqsUpTo(S, n - 1)
       IN shorter \cup { Append(q, x) : q \in { r \in shorter : Len(r) = n - 1 },
                                        x \in S }

\* raw values of the keys "enabled" and "on_failure" of the context entry
RawEnabled == {"missing", "True", "False", "'off'"}
RawOnFailure == {"missing", "block", "downgrade", "warn"}

\* bool(value) for the raw values above
Truthy(v) == v \in {"True", "'off'"}

GateModes == {"warn", "block", "skip", "strict"}

\* variant: every enabled mode blocks
default_gate_config_BlockWhenEnabled(mode) ==
  [ is_dict |-> TRUE,
    enabled |-> IF mode # "skip" THEN "True" ELSE "False",
    on_failure |-> IF mode # "skip" THEN "block" ELSE "downgrade" ]

\* default_gate_config(mode)["citation_accuracy_gate"]
default_gate_config(mode) ==
  [ is_dict |-> TRUE,
    enabled |-> IF mode # "skip" THEN "True" ELSE "False",
    on_failure |-> IF mode = "block" THEN "block" ELSE "downgrade" ]

\* the defaults of the CitationAccuracyGateConfig dataclass
DefaultGateConfig ==
  [ enabled |-> FALSE, on_failure |-> "block",
    min_alignment_score |-> 180, min_keyword_overlap |-> 60,
    enable_entity_overlap |-> FALSE, min_entity_overlap |-> 200,
    enable_numeric_consistency |-> FALSE ]

\* CitationAccuracyGateConfig.from_context for a context entry that sets at
\* most "enabled" and "on_failure"
from_context(raw) ==
  IF ~raw.is_dict THEN DefaultGateConfig
  ELSE [ DefaultGateConfig EXCEPT
           !.enabled = IF raw.enabled = "missing" THEN FALSE
                       ELSE Truthy(raw.enabled),
           !.on_failure = IF raw.on_failure \in {"block", "downgrade"}
                          THEN raw.on_failure ELSE "block" ]

\* CitationAccuracyVerifier.verify_claim, from the overlaps of the claim
verify_claim(cfg, claim) ==
  LET keyword_overlap == claim.keyword_overlap
      entity_overlap == IF cfg.enable_entity_overlap
                        THEN claim.entity_overlap ELSE 0
      numeric_ok == IF cfg.enable_numeric_consistency
                    THEN claim.numeric_ok ELSE TRUE
      with_entities == IF cfg.enable_entity_overlap
                       THEN Min(1000, keyword_overlap + (entity_overlap \div 5))
                       ELSE keyword_overlap
      alignment_score == IF cfg.enable_numeric_consistency /\ ~numeric_ok
                         THEN with_entities \div 2 ELSE with_entities
      reasons ==
        (IF keyword_overlap < cfg.min_keyword_overlap
           THEN << "keyword_overlap_below_threshold" >> ELSE << >>)
        \o (IF cfg.enable_entity_overlap
                /\ entity_overlap < cfg.min_entity_overlap
             THEN << "entity_overlap_below_threshold" >> ELSE << >>)
        \o (IF cfg.enable_numeric_consistency /\ ~numeric_ok
             THEN << "numeric_mismatch" >> ELSE << >>)
        \o (IF alignment_score < cfg.min_alignment_score
             THEN << "alignment_score_below_threshold" >> ELSE << >>)
  IN [ evidence_ids |-> claim.evidence_ids, checked |-> TRUE,
       ok |-> reasons = << >>, reasons |-> reasons,
       alignment_score |-> alignment_score ]

SkippedReport(claim, reason) ==
  [ evidence_ids |-> claim.evidence_ids, checked |-> FALSE, ok |-> TRUE,
    reasons |-> << reason >>, alignment_score |-> 0 ]

\* variant: a claim is verified against the evidence that could be resolved
ClaimReport_IgnoreUnresolved(cfg, claim, by_id) ==
  IF claim.evidence_ids = {}
  THEN SkippedReport(claim, "missing_evidence_ids")
  ELSE IF claim.evidence_ids \cap by_id = {}
       THEN SkippedReport(claim, "evidence_ids_unresolved")
       ELSE verify_claim(cfg, claim)

\* one iteration of the loop over the claims
ClaimReport(cfg, claim, by_id) ==
  IF claim.evidence_ids = {}
  THEN SkippedReport(claim, "missing_evidence_ids")
  ELSE IF ~(claim.evidence_ids \subseteq by_id)
       THEN SkippedReport(claim, "evidence_ids_unresolved")
       ELSE verify_claim(cfg, claim)

\* reports and counters before the loop over the claims
NoCounts == [ reports |-> << >>, checked |-> 0, failed |-> 0, skipped_missing |-> 0 ]

\* variant: a claim with unresolved evidence counts as checked as well
gate_loop_UnresolvedCounted(cfg, claims, by_id, acc) ==
  LET counted == Cardinality({ k \in 1..Len(claims) : claims[k].evidence_ids # {} })
      failing == Cardinality({ k \in 1..Len(claims) :
                   /\ claims[k].evidence_ids # {}
                   /\ claims[k].evidence_ids \subseteq by_id
                   /\ ~verify_claim(cfg, claims[k]).ok })
  IN [ reports |-> acc.reports
                     \o [ k \in 1..Len(claims) |-> ClaimReport(cfg, claims[k], by_id) ],
       checked |-> acc.checked + counted,
       failed |-> acc.failed + failing,
       skipped_missing |-> acc.skipped_missing + Len(claims)
                             - Cardinality({ k \in 1..Len(claims) :
                                  /\ claims[k].evidence_ids # {}
                                  /\ claims[k].evidence_ids \subseteq by_id }) ]

\* the loop over the claims: every iteration appends one report and counts
\* the claim as skipped, or as checked and, when its report is not ok, as
\* failed
RECURSIVE gate_loop(_, _, _, _)
gate_loop(cfg, claims, by_id, acc) ==
  IF claims = << >> THEN acc
  ELSE LET claim == Head(claims)
           rep == ClaimReport(cfg, claim, by_id)
       IN IF claim.evidence_ids = {} \/ ~(claim.evidence_ids \subseteq by_id)
          THEN gate_loop(cfg, Tail(claims), by_id,
                 [ acc EXCEPT !.skipped_missing = @ + 1,
                              !.reports = Append(@, rep) ])
          ELSE gate_loop(cfg, Tail(claims), by_id,
                 [ acc EXCEPT !.reports = Append(@, rep),
                              !.checked = @ + 1,
                              !.failed = IF rep.ok = FALSE THEN @ + 1 ELSE @ ])

\* check_citation_accuracy_gate(project_folder, config)
check_citation_accuracy_gate(cfg, claims, by_id) ==
  IF ~cfg.enabled
  THEN [ ok |-> TRUE, enabled |-> FALSE, action |-> "disabled",
         reports |-> << >>, checked_claims_total |-> 0,
         failed_claims_total |-> 0, skipped_missing_evidence_total |-> 0 ]
  ELSE LET counts == gate_loop(cfg, claims, by_id, NoCounts)
       IN [ ok |-> GateOk(TRUE, cfg.on_failure, counts.failed),
            enabled |-> TRUE,
            action |-> GateAction(TRUE, cfg.on_failure, counts.failed),
            reports |-> counts.reports,
            checked_claims_total |-> counts.checked,
            failed_claims_total |-> counts.failed,
            skipped_missing_evidence_total |-> counts.skipped_missing ]

NoGateResult ==
  [ ok |-> TRUE, enabled |-> FALSE, action |-> "none", reports |-> << >>,
    checked_claims_total |-> 0, failed_claims_total |-> 0,
    skipped_missing_evidence_total |-> 0 ]

\* the span before safe_set_current_span_attributes
NoSpanAttributes ==
  [ name |-> "none", enabled |-> FALSE, ok |-> TRUE, action |-> "none" ]

\* the gate.* attributes safe_set_current_span_attributes is given
SpanAttributes(result) ==
  [ name |-> "citation_accuracy", enabled |-> result.enabled,
    ok |-> result.ok, action |-> result.action ]

NoContext == [ is_dict |-> FALSE, enabled |-> "missing", on_failure |-> "missing" ]

\* no gate evaluation takes place
GateIdle ==
  /\ gate_mode = "custom"
  /\ gate_context = NoContext
  /\ gate_claims = << >>
  /\ evidence_map = {}
  /\ gate_pc = "idle"
  /\ gate_result = NoGateResult
  /\ gate_span = NoSpanAttributes
  /\ gate_files = {}

\* a project on disk and a context, either built by default_gate_config or
\* given by the caller
InitGateVars ==
  /\ gate_mode \in GateModes \cup {"custom"}
  /\ gate_context \in
       IF gate_mode # "custom" THEN { default_gate_config(gate_mode) }
       ELSE { NoContext }
            \cup [ is_dict : {TRUE}, enabled : RawEnabled,
                   on_failure : RawOnFailure ]
  /\ gate_claims \in SeqsUpTo(ClaimShapes, MaxClaims)
  /\ evidence_map \in SUBSET EvidenceIds
  /\ gate_pc = "ready"
  /\ gate_result = NoGateResult
  /\ gate_span = NoSpanAttributes
  /\ gate_files = {}

\* the configuration the gate runs with
GateConfig == from_context(gate_context)

\* a caller evaluates the gate and gets the result; the function sets the
\* span attributes and writes no file
CheckGate ==
  /\ gate_pc = "ready"
  /\ LET result == check_citation_accuracy_gate(GateConfig, gate_claims,
                                                 evidence_map)
     IN /\ gate_result' = result
        /\ gate_span' = SpanAttributes(result)
  /\ gate_pc' = "returned"
  /\ UNCHANGED << gate_mode, gate_context, gate_claims, evidence_map,
                  gate_files >>
  /\ UNCHANGED nonGateVars

\* enforce_citation_accuracy_gate: the result, or CitationAccuracyGateError
\* when the gate is enabled and its action is block
EnforceGate ==
  /\ gate_pc = "ready"
  /\ LET result == check_citation_accuracy_gate(GateConfig, gate_claims,
                                                 evidence_map)
     IN /\ gate_result' = result
        /\ gate_span' = SpanAttributes(result)
        /\ gate_pc' = IF result.enabled /\ result.action = "block"
                      THEN "raised" ELSE "enforced"
  /\ UNCHANGED << gate_mode, gate_context, gate_claims, evidence_map,
                  gate_files >>
  /\ UNCHANGED nonGateVars

(***************************************************************************)
(* Part IV.  The pre-flight environment purge of the runner.               *)
(***************************************************************************)
NoArchive == -1

Seconds == 0..MaxClock

\* variant: an empty outputs/ directory is archived too
archive_existing_outputs_ArchiveEmpty(outs, arch, timestamp) ==
  IF outs = "absent"
  THEN [ outputs |-> outs, archives |-> arch, archived |-> NoArchive,
         failed |-> FALSE ]
  ELSE IF arch[timestamp] = "none"
  THEN [ outputs |-> "empty", archives |-> [ arch EXCEPT ![timestamp] = "one" ],
         archived |-> timestamp, failed |-> FALSE ]
  ELSE IF arch[timestamp] = "one"
  THEN [ outputs |-> "empty", archives |-> [ arch EXCEPT ![timestamp] = "two" ],
         archived |-> timestamp, failed |-> FALSE ]
  ELSE [ outputs |-> outs, archives |-> arch, archived |-> NoArchive,
         failed |-> TRUE ]

\* archive_existing_outputs at the given second.  Nothing is done for an
\* absent or empty outputs/.  shutil.move renames outputs/ to the archive
\* path when that path is free, moves it inside the directory found there
\* when that has no "outputs" entry yet, and raises otherwise (the OSError
\* is logged and None returned).  After a move outputs/ is recreated empty.
archive_existing_outputs(outs, arch, timestamp) ==
  IF outs \in {"absent", "empty"}
  THEN [ outputs |-> outs, archives |-> arch, archived |-> NoArchive,
         failed |-> FALSE ]
  ELSE IF arch[timestamp] = "none"
  THEN [ outputs |-> "empty", archives |-> [ arch EXCEPT ![timestamp] = "one" ],
         archived |-> timestamp, failed |-> FALSE ]
  ELSE IF arch[timestamp] = "one"
  THEN [ outputs |-> "empty", archives |-> [ arch EXCEPT ![timestamp] = "two" ],
         archived |-> timestamp, failed |-> FALSE ]
  ELSE [ outputs |-> outs, archives |-> arch, archived |-> NoArchive,
         failed |-> TRUE ]

InitPurgeVars ==
  /\ clock = 0
  /\ outputs \in {"absent", "empty", "full"}
  /\ archives = [ t \in Seconds |-> "none" ]
  /\ pycache \in BOOLEAN
  /\ temp_items \in BOOLEAN
  /\ purges = 0
  /\ streak = 0
  /\ last_archived = NoArchive

\* no purge takes place
PurgeIdle ==
  /\ clock = 0
  /\ outputs = "absent"
  /\ archives = [ t \in Seconds |-> "none" ]
  /\ pycache = FALSE
  /\ temp_items = FALSE
  /\ purges = 0
  /\ streak = 0
  /\ last_archived = NoArchive

\* run_environment_purge, as called at the start of a run without
\* --skip-purge: bytecode caches deleted, temp/ cleared, outputs/ archived
RunEnvironmentPurge ==
  /\ purges < MaxPurges
  /\ purges' = purges + 1
  /\ pycache' = FALSE
  /\ temp_items' = FALSE
  /\ LET r == archive_existing_outputs(outputs, archives, clock)
     IN /\ outputs' = r.outputs
        /\ archives' = r.archives
        /\ last_archived' = r.archived
        /\ streak' = IF r.failed THEN 0 ELSE streak + 1
  /\ UNCHANGED clock
  /\ UNCHANGED nonPurgeVars

\* a phase child writes a file under outputs/
PhaseWritesOutput ==
  /\ purges >= 1
  /\ outputs' = "full"
  /\ streak' = 0
  /\ UNCHANGED << clock, archives, pycache, temp_items, purges, last_archived >>
  /\ UNCHANGED nonPurgeVars

\* an interpreter writes a bytecode cache
PycacheWritten ==
  /\ purges >= 1
  /\ ~pycache
  /\ pycache' = TRUE
  /\ streak' = 0
  /\ UNCHANGED << clock, outputs, archives, temp_items, purges, last_archived >>
  /\ UNCHANGED nonPurgeVars

\* something is left in temp/
TempWritten ==
  /\ purges >= 1
  /\ ~temp_items
  /\ temp_items' = TRUE
  /\ streak' = 0
  /\ UNCHANGED << clock, outputs, archives, pycache, purges, last_archived >>
  /\ UNCHANGED nonPurgeVars

\* the clock reaches the next second
ClockAdvances ==
  /\ clock < MaxClock
  /\ clock' = clock + 1
  /\ UNCHANGED << outputs, archives, pycache, temp_items, purges, streak,
                  last_archived >>
  /\ UNCHANGED nonPurgeVars

(***************************************************************************)
(* Part V.  The environment of a phase child (_build_subprocess_env).      *)
(***************************************************************************)
base_allowlist ==
  { "PATH", "HOME", "LANG", "LC_ALL", "LC_CTYPE", "TMPDIR", "TEMP", "TMP",
    "SSL_CERT_FILE", "SSL_CERT_DIR", "REQUESTS_CA_BUNDLE", "CURL_CA_BUNDLE",
    "ANTHROPIC_API_KEY", "EDISON_API_KEY", "OPENAI_API_KEY" }

ForcedNames == { "PYTHONDONTWRITEBYTECODE", "PYTHONNOUSERSITE" }

\* the variable names a parent environment of the model may set
ParentNames ==
  { "PATH", "EDISON_API_KEY", "PYTHONPATH", "PYTHONDONTWRITEBYTECODE" }

\* values of environment variables; 1 stands for the string "1"
EnvValues == 1..NumEnvValues

\* os.environ.get(key) is None
Unset == 0

Parents == {"a", "b"}

\* variant: the child inherits the whole parent environment
build_subprocess_env_Inherit(environ) ==
  [ key \in DOMAIN environ \cup ForcedNames |->
      IF key \in ForcedNames THEN 1 ELSE environ[key] ]

\* _build_subprocess_env over os.environ = environ (Unset: not set); names
\* the result does not set are Unset
build_subprocess_env(environ) ==
  [ key \in DOMAIN environ \cup ForcedNames |->
      IF key \in ForcedNames THEN 1
      ELSE IF key \in base_allowlist THEN environ[key]
      ELSE Unset ]

NoEnv == [ key \in ParentNames \cup ForcedNames |-> Unset ]

InitEnvVars ==
  /\ parent_env \in [ Parents -> [ ParentNames -> EnvValues \cup {Unset} ] ]
  /\ child_env = [ p \in Parents |-> NoEnv ]
  /\ built = {}

\* no child environment is built
EnvIdle ==
  /\ parent_env = [ p \in Parents |-> [ key \in ParentNames |-> Unset ] ]
  /\ child_env = [ p \in Parents |-> NoEnv ]
  /\ built = {}

\* execute_phase of parent p builds the env argument of Popen
BuildChildEnv(p) ==
  /\ p \notin built
  /\ child_env' = [ child_env EXCEPT ![p] = build_subprocess_env(parent_env[p]) ]
  /\ built' = built \cup {p}
  /\ UNCHANGED parent_env
  /\ UNCHANGED nonEnvVars

(***************************************************************************)
(* Part VI.  The bibliography build (src/citations/bibliography.py and     *)
(* normalize_doi of src/citations/crossref.py).  A DOI string is a         *)
(* sequence of pieces: a prefix piece or the registrant/suffix part.       *)
(***************************************************************************)
\* the pieces a DOI string is made of, in both cases
DoiPieces == { "doi:", "DOI:", "https://doi.org/", "10.1/x", "10.1/X" }

\* str.lower() of one piece
Lower(piece) ==
  CASE piece = "DOI:" -> "doi:"
    [] piece = "HTTPS://DOI.ORG/" -> "https://doi.org/"
    [] piece = "10.1/X" -> "10.1/x"
    [] piece = "10.2/Y" -> "10.2/y"
    [] OTHER -> piece

\* the string without the given prefix, the string itself if it does not
\* start with it
StripPrefix(s, prefix) ==
  IF Len(s) > 0 /\ s[1] = prefix THEN Tail(s) ELSE s

\* normalize_doi: lowercased, doi: prefix stripped, https://doi.org/ prefix
\* stripped
normalize_doi(doi) ==
  LET lowered == [ i \in 1..Len(doi) |-> Lower(doi[i]) ]
      no_scheme == StripPrefix(lowered, "doi:")
  IN StripPrefix(no_scheme, "https://doi.org/")

\* the DOI strings given to normalize_doi
DoiInputs == SeqsUpTo(DoiPieces, MaxDoiLen)

\* the doi field of a citation record, << >> when the record has none
RecordDois ==
  { << >>, << "10.1/x" >>, << "doi:", "10.1/X" >>,
    << "https://doi.org/", "10.1/x" >>, << "10.2/Y" >> }

\* the i-th record of the registry; citation keys are unique
CitationKeyOf(i) == "Key" \o ToString(i)

\* the lists of records a build is given
RecordLists ==
  { [ i \in 1..Len(dois) |-> [ citation_key |-> CitationKeyOf(i),
                               doi |-> dois[i] ] ] :
      dois \in SeqsUpTo(RecordDois, MaxRecords) }

\* the positions of kept whose record has the normalized DOI d
SameDoi(kept, d) ==
  { i \in 1..Len(kept) : d # << >> /\ normalize_doi(kept[i].doi) = d }

\* the loop of the deduplication over the records that remain
RECURSIVE dedupe_loop(_, _, _)
dedupe_loop(rest, kept, dropped) ==
  IF rest = << >>
    THEN [ records |-> kept, dropped |-> dropped ]
    ELSE LET rec == Head(rest)
             same == SameDoi(kept, normalize_doi(rec.doi))
         IN IF same = {}
              THEN dedupe_loop(Tail(rest), Append(kept, rec), dropped)
              ELSE LET first == CHOOSE i \in same : \A j \in same : i <= j
                   IN dedupe_loop(Tail(rest), kept,
                        dropped \cup { << rec.citation_key,
                                          kept[first].citation_key >> })

\* deduplication that compares the DOI strings as they were written
RECURSIVE dedupe_loop_Raw(_, _, _)
dedupe_loop_Raw(rest, kept, dropped) ==
  IF rest = << >>
    THEN [ records |-> kept, dropped |-> dropped ]
    ELSE LET rec == Head(rest)
             same == { i \in 1..Len(kept) :
                         rec.doi # << >> /\ kept[i].doi = rec.doi }
         IN IF same = {}
              THEN dedupe_loop_Raw(Tail(rest), Append(kept, rec), dropped)
              ELSE LET first == CHOOSE i \in same : \A j \in same : i <= j
                   IN dedupe_loop_Raw(Tail(rest), kept,
                        dropped \cup { << rec.citation_key,
                                          kept[first].citation_key >> })

dedupe_citation_records_by_doi_Raw(records) ==
  dedupe_loop_Raw(records, << >>, {})

\* dedupe_citation_records_by_doi: one record per normalized DOI survives,
\* the first in order; the key of every other one maps to the survivor's
dedupe_citation_records_by_doi(records) ==
  dedupe_loop(records, << >>, {})

InitBibVars ==
  /\ bib_records \in RecordLists
  /\ bib_pc = "ready"
  /\ bib_survivors = << >>
  /\ bib_dropped = {}
  /\ doi_trace = << >>

\* no bibliography is built and no DOI is normalized
BibIdle ==
  /\ bib_records = << >>
  /\ bib_pc = "ready"
  /\ bib_survivors = << >>
  /\ bib_dropped = {}
  /\ doi_trace = << >>

\* one DOI string, before its first normalization
InitDoiVars ==
  /\ bib_records = << >>
  /\ bib_pc = "ready"
  /\ bib_survivors = << >>
  /\ bib_dropped = {}
  /\ \E doi \in DoiInputs : doi_trace = << doi >>

\* build_bibliography deduplicates the records before it writes the .bib
BuildBibliography ==
  /\ bib_pc = "ready"
  /\ bib_pc' = "built"
  /\ bib_survivors' = dedupe_citation_records_by_doi(bib_records).records
  /\ bib_dropped' = dedupe_citation_records_by_doi(bib_records).dropped
  /\ UNCHANGED << bib_records, doi_trace >>
  /\ UNCHANGED nonBibVars

\* normalize_doi is applied to the last form of the DOI
NormalizeDoi ==
  /\ Len(doi_trace) \in 1..2
  /\ doi_trace' = Append(doi_trace, normalize_doi(doi_trace[Len(doi_trace)]))
  /\ UNCHANGED << bib_records, bib_pc, bib_survivors, bib_dropped >>
  /\ UNCHANGED nonBibVars

(***************************************************************************)
(* Part VII.  The DOI resolver with fallback                               *)
(* (src/citations/verification.py).  Times are in hours.                   *)
(***************************************************************************)
\* CitationVerificationPolicy.max_age_hours: the default and a shorter one
DEFAULT_MAX_AGE_HOURS == 24
MaxAges == { 12, DEFAULT_MAX_AGE_HOURS }

\* the time of the call
ResolveNow == 48

\* last_checked of the existing record: absent, not a date, or a time
LastCheckedValues ==
  { [ kind |-> "missing", at |-> 0 ], [ kind |-> "unparseable", at |-> 0 ] }
    \cup { [ kind |-> "time", at |-> t ] : t \in { 0, 23, 24, 25, 36, 47, 48 } }

\* how a call of a provider ends
ProviderOutcomes == { "ok", "not_found", "error" }

NoRecord ==
  [ status |-> "none", provider_used |-> "none",
    last_checked |-> [ kind |-> "missing", at |-> 0 ], attempts |-> << >>,
    manual_verification_required |-> FALSE, reused |-> FALSE ]

\* the existing records: none, or a record with a verification block
ExistingRecords ==
  { NoRecord }
    \cup { [ status |-> st, provider_used |-> "crossref", last_checked |-> lc,
             attempts |-> << [ provider |-> "crossref", ok |-> TRUE ] >>,
             manual_verification_required |-> FALSE, reused |-> FALSE ] :
           st \in { "verified", "unverified" }, lc \in LastCheckedValues }

\* staleness that counts the limit itself as stale
is_verification_stale_Strict(last_checked, now_hours, max_age_hours) ==
  \/ last_checked.kind # "time"
  \/ now_hours - last_checked.at >= max_age_hours

\* is_verification_stale: missing or unparseable, or older than max_age_hours
is_verification_stale(last_checked, now_hours, max_age_hours) ==
  \/ last_checked.kind # "time"
  \/ now_hours - last_checked.at > max_age_hours

\* the attempts trail of the calls made so far
AttemptsOf(made) ==
  [ i \in 1..Len(made) |->
      [ provider |-> made[i].provider, ok |-> made[i].outcome = "ok" ] ]

\* the record returned once a provider has resolved the DOI
VerifiedRecord(made, now_hours) ==
  [ status |-> "verified", provider_used |-> made[Len(made)].provider,
    last_checked |-> [ kind |-> "time", at |-> now_hours ],
    attempts |-> AttemptsOf(made),
    manual_verification_required |-> FALSE, reused |-> FALSE ]

\* the record returned when no provider resolved the DOI
UnverifiedRecord(made, now_hours) ==
  [ status |-> "unverified", provider_used |-> "none",
    last_checked |-> [ kind |-> "time", at |-> now_hours ],
    attempts |-> AttemptsOf(made),
    manual_verification_required |-> TRUE, reused |-> FALSE ]

InitResVars ==
  /\ res_existing \in ExistingRecords
  /\ res_max_age \in MaxAges
  /\ res_now = ResolveNow
  /\ res_pc = "start"
  /\ res_calls = << >>
  /\ res_record = NoRecord

\* no DOI is being resolved
ResIdle ==
  /\ res_existing = NoRecord
  /\ res_max_age = DEFAULT_MAX_AGE_HOURS
  /\ res_now = ResolveNow
  /\ res_pc = "start"
  /\ res_calls = << >>
  /\ res_record = NoRecord

\* a fresh verified existing record is returned as it is
ReuseOrResolve ==
  /\ res_pc = "start"
  /\ IF /\ res_existing.status = "verified"
        /\ ~is_verification_stale(res_existing.last_checked, res_now,
                                  res_max_age)
       THEN /\ res_pc' = "done"
            /\ res_record' = [ res_existing EXCEPT !.reused = TRUE ]
       ELSE /\ res_pc' = "primary"
            /\ UNCHANGED res_record
  /\ UNCHANGED << res_existing, res_max_age, res_now, res_calls >>
  /\ UNCHANGED nonResVars

\* a fallback that also follows a NotFound of the primary provider
AfterPrimary_FallbackOnNotFound(outcome) ==
  IF outcome = "ok" THEN "done" ELSE "secondary"

\* where the resolver goes after the primary provider: the secondary one is
\* tried only after an error other than NotFound
AfterPrimary(outcome) ==
  IF outcome = "error" THEN "secondary" ELSE "done"

\* resolve_crossref_doi_to_record is called
CallPrimary ==
  /\ res_pc = "primary"
  /\ \E outcome \in ProviderOutcomes :
       LET made == Append(res_calls,
                      [ provider |-> "crossref", outcome |-> outcome ])
       IN /\ res_calls' = made
          /\ res_pc' = AfterPrimary(outcome)
          /\ res_record' =
               CASE outcome = "ok" -> VerifiedRecord(made, res_now)
                 [] AfterPrimary(outcome) = "done" ->
                      UnverifiedRecord(made, res_now)
                 [] OTHER -> res_record
  /\ UNCHANGED << res_existing, res_max_age, res_now >>
  /\ UNCHANGED nonResVars

\* resolve_openalex_doi_to_record is called
CallSecondary ==
  /\ res_pc = "secondary"
  /\ \E outcome \in ProviderOutcomes :
       LET made == Append(res_calls,
                      [ provider |-> "openalex", outcome |-> outcome ])
       IN /\ res_calls' = made
          /\ res_pc' = "done"
          /\ res_record' =
               IF outcome = "ok" THEN VerifiedRecord(made, res_now)
               ELSE UnverifiedRecord(made, res_now)
  /\ UNCHANGED << res_existing, res_max_age, res_now >>
  /\ UNCHANGED nonResVars

(***************************************************************************)
(* Part VIII.  The revision loop of the feedback protocol                  *)
(* (ConvergenceCriteria.should_stop).  Scores are in hundredths.           *)
(***************************************************************************)
\* quality scores a review gives
QualityScores == { 50, 70, 72, 85 }

\* counts of critical and of major issues a review reports
IssueCounts == { 0, 2 }

\* the criteria a loop is run with
CriteriaChoices ==
  [ quality_threshold : { 80, 90 },
    max_iterations : 1..MaxIterationsLimit,
    min_improvement : { 5 },
    require_no_critical : BOOLEAN ]

\* should_stop that looks at the critical issues before the iteration limit
should_stop_CriticalFirst(criteria, current_score, has_previous, previous_score, iteration, critical_count, major_count) ==
  CASE criteria.require_no_critical /\ critical_count > 0 ->
         [ stop |-> FALSE, reason |-> "critical" ]
    [] iteration >= criteria.max_iterations ->
         [ stop |-> TRUE, reason |-> "maximum" ]
    [] current_score >= criteria.quality_threshold ->
         [ stop |-> TRUE, reason |-> "threshold" ]
    [] has_previous
         /\ current_score - previous_score < criteria.min_improvement ->
         [ stop |-> TRUE, reason |-> "improvement" ]
    [] OTHER -> [ stop |-> FALSE, reason |-> "continue" ]

\* ConvergenceCriteria.should_stop: (stop, reason); the iteration limit, then
\* the critical issues, the quality threshold and the improvement
should_stop(criteria, current_score, has_previous, previous_score, iteration, critical_count, major_count) ==
  CASE iteration >= criteria.max_iterations ->
         [ stop |-> TRUE, reason |-> "maximum" ]
    [] criteria.require_no_critical /\ critical_count > 0 ->
         [ stop |-> FALSE, reason |-> "critical" ]
    [] current_score >= criteria.quality_threshold ->
         [ stop |-> TRUE, reason |-> "threshold" ]
    [] has_previous
         /\ current_score - previous_score < criteria.min_improvement ->
         [ stop |-> TRUE, reason |-> "improvement" ]
    [] OTHER -> [ stop |-> FALSE, reason |-> "continue" ]

\* no evaluation of should_stop yet
NoEvaluation ==
  [ evaluated |-> FALSE, iteration |-> 0, current_score |-> 0,
    critical_count |-> 0, major_count |-> 0, stop |-> FALSE,
    reason |-> "none" ]

InitConvVars ==
  /\ conv_criteria \in CriteriaChoices
  /\ conv_iteration = 1
  /\ conv_has_previous = FALSE
  /\ conv_previous_score = 0
  /\ conv_pc = "revising"
  /\ conv_last = NoEvaluation

\* no revision loop runs
ConvIdle ==
  /\ conv_criteria = [ quality_threshold |-> 80, max_iterations |-> 1,
                       min_improvement |-> 5, require_no_critical |-> TRUE ]
  /\ conv_iteration = 1
  /\ conv_has_previous = FALSE
  /\ conv_previous_score = 0
  /\ conv_pc = "revising"
  /\ conv_last = NoEvaluation

\* one iteration: the content is reviewed, should_stop is asked, and the
\* loop ends or goes to the next iteration
ReviseOnce ==
  /\ conv_pc = "revising"
  /\ conv_iteration <= MaxIterationsLimit + 1
  /\ \E current_score \in QualityScores,
        critical_count \in IssueCounts, major_count \in IssueCounts :
       LET decision ==
             should_stop(conv_criteria, current_score, conv_has_previous,
                         conv_previous_score, conv_iteration, critical_count,
                         major_count)
       IN /\ conv_last' =
               [ evaluated |-> TRUE, iteration |-> conv_iteration,
                 current_score |-> current_score,
                 critical_count |-> critical_count,
                 major_count |-> major_count, stop |-> decision.stop,
                 reason |-> decision.reason ]
          /\ IF decision.stop
               THEN /\ conv_pc' = "stopped"
                    /\ UNCHANGED << conv_iteration, conv_has_previous,
                                    conv_previous_score >>
               ELSE /\ conv_pc' = "revising"
                    /\ conv_iteration' = conv_iteration + 1
                    /\ conv_has_previous' = TRUE
                    /\ conv_previous_score' = current_score
  /\ UNCHANGED conv_criteria
  /\ UNCHANGED nonConvVars

(***************************************************************************)
(* Part IX.  Deliberation and consensus (src/agents/deliberation.py,       *)
(* AgentOrchestrator.execute_deliberation_and_consensus).                  *)
(***************************************************************************)
\* agent_ids of the deliberation, in the declared order
AgentIds == [ i \in 1..MaxAgents |-> "A0" \o ToString(i) ]

Agents == { AgentIds[i] : i \in 1..MaxAgents }

\* the contents an agent may produce
AgentContents == { "alpha", "beta", "alpha\n" }

\* whitespace normalization of a content
NormalizeWhitespace(content) ==
  IF content = "alpha\n" THEN "alpha" ELSE content

\* the two deliberations that are compared
Runs == { 1, 2 }

\* detect_conflict: some pair of outputs differs after normalization
detect_conflict(contents) ==
  \E i, j \in 1..Len(contents) :
    NormalizeWhitespace(contents[i]) # NormalizeWhitespace(contents[j])

\* the consolidated result of the given perspectives, taken in that order
ConsensusOf(ordered) ==
  LET contents == [ i \in 1..Len(ordered) |-> ordered[i].content ]
      conflict == detect_conflict(contents)
  IN [ done |-> TRUE,
       conflict_detected |-> conflict,
       degraded |-> conflict,
       consolidated_output |->
         IF conflict THEN ordered ELSE << ordered[1] >> ]

\* consolidation in the order in which the agents completed
build_consensus_CompletionOrder(agent_ids, perspectives) ==
  ConsensusOf(perspectives)

\* build_consensus: the perspectives are taken by agent id, in the order of
\* agent_ids
build_consensus(agent_ids, perspectives) ==
  ConsensusOf(
    [ i \in 1..Len(agent_ids) |->
        perspectives[CHOOSE k \in 1..Len(perspectives) :
                       perspectives[k].agent_id = agent_ids[i]] ])

NoConsensus ==
  [ done |-> FALSE, conflict_detected |-> FALSE, degraded |-> FALSE,
    consolidated_output |-> << >> ]

InitDelibVars ==
  /\ delib_outputs \in [ Agents -> AgentContents ]
  /\ delib_collected = [ r \in Runs |-> << >> ]
  /\ delib_result = [ r \in Runs |-> NoConsensus ]

\* no deliberation runs
DelibIdle ==
  /\ delib_outputs = [ a \in Agents |-> "alpha" ]
  /\ delib_collected = [ r \in Runs |-> << >> ]
  /\ delib_result = [ r \in Runs |-> NoConsensus ]

\* the agents of run r that have completed
Completed(r) ==
  { delib_collected[r][i].agent_id : i \in 1..Len(delib_collected[r]) }

\* one of the concurrent agents of run r completes
AgentCompletes(r, agent) ==
  /\ agent \notin Completed(r)
  /\ delib_collected' =
       [ delib_collected EXCEPT ![r] =
           Append(@, [ agent_id |-> agent,
                       content |-> delib_outputs[agent] ]) ]
  /\ UNCHANGED << delib_outputs, delib_result >>
  /\ UNCHANGED nonDelibVars

\* all agents of run r have completed: the outputs are consolidated
Consolidate(r) ==
  /\ Completed(r) = Agents
  /\ ~delib_result[r].done
  /\ delib_result' =
       [ delib_result EXCEPT ![r] =
           build_consensus(AgentIds, delib_collected[r]) ]
  /\ UNCHANGED << delib_outputs, delib_collected >>
  /\ UNCHANGED nonDelibVars

(***************************************************************************)
(* Part X.  The numeric-consistency check of verify_claim                  *)
(* (src/citations/accuracy_gate.py).  A text is a sequence of atoms: a run *)
(* of digits (its value), a percent sign, a space or a letter.  The texts  *)
(* have no decimal point and no two adjacent runs of digits.               *)
(***************************************************************************)
Digits(value) == [ kind |-> "digits", value |-> value ]
Percent == [ kind |-> "percent", value |-> 0 ]
Space == [ kind |-> "space", value |-> 0 ]
Letter == [ kind |-> "letter", value |-> 0 ]

\* the runs of digits of the texts: a year, a four-digit non-year, a small one
DigitValues == { 2020, 1850, 5 }

TextAtoms == { Digits(v) : v \in DigitValues } \cup { Percent, Space, Letter }

\* a run of digits is never split over two atoms
WellFormedText(text) ==
  \A i \in 1..(Len(text) - 1) :
    ~(text[i].kind = "digits" /\ text[i + 1].kind = "digits")

StatementTexts ==
  { text \in SeqsUpTo(TextAtoms, MaxTextLen) : WellFormedText(text) }

EvidenceTexts ==
  { << >>,
    << Digits(2020) >>,
    << Digits(2020), Percent, Space >>,
    << Digits(2020), Percent, Letter >>,
    << Digits(5), Space, Digits(1850) >>,
    << Digits(5), Percent, Letter >> }

\* \w of the regular expression
IsWordChar(atom) == atom.kind \in { "digits", "letter" }

\* position i of the text holds a word character
WordAt(text, i) == i \in 1..Len(text) /\ IsWordChar(text[i])

\* a number as re.findall returns it: the digits and whether the match
\* ends with %
Number(value, percent) == [ value |-> value, percent |-> percent ]

\* re.findall(r"\b\d+(?:\.\d+)?%?\b", text) from position i on: a run of
\* digits matches where a word boundary precedes it; the % after it belongs
\* to the match only when a word character follows the %, because the
\* pattern ends with \b
RECURSIVE findall_numbers(_, _, _)
findall_numbers(text, i, nums) ==
  IF i > Len(text) THEN nums
  ELSE IF text[i].kind = "digits" /\ ~WordAt(text, i - 1)
    THEN IF WordAt(text, i + 1)
           THEN findall_numbers(text, i + 1, nums)
         ELSE IF /\ i + 1 <= Len(text)
                 /\ text[i + 1].kind = "percent"
                 /\ WordAt(text, i + 2)
           THEN findall_numbers(text, i + 2,
                  nums \cup { Number(text[i].value, TRUE) })
         ELSE findall_numbers(text, i + 1,
                nums \cup { Number(text[i].value, FALSE) })
  ELSE findall_numbers(text, i + 1, nums)

\* _extract_numbers
extract_numbers(text) == findall_numbers(text, 1, {})

\* n.isdigit() and len(n) == 4 and 1900 <= int(n) <= 2100
YearLike(n) ==
  /\ ~n.percent
  /\ n.value \in 1000..9999
  /\ 1900 <= n.value
  /\ n.value <= 2100

\* _filter_year_like_numbers
filter_year_like_numbers(nums) == { n \in nums : n.percent \/ ~YearLike(n) }

\* claim_nums and not claim_nums.issubset(evidence_nums)
NumericOk(claim_nums, evidence_nums) ==
  ~(claim_nums # {} /\ ~(claim_nums \subseteq evidence_nums))

InitNumVars ==
  /\ num_enabled \in BOOLEAN
  /\ num_statement \in StatementTexts
  /\ num_evidence \in EvidenceTexts
  /\ num_pc = "ready"
  /\ num_claim_nums = {}
  /\ num_evidence_nums = {}
  /\ num_ok = TRUE

\* no numeric check runs
NumIdle ==
  /\ num_enabled = FALSE
  /\ num_statement = << >>
  /\ num_evidence = << >>
  /\ num_pc = "ready"
  /\ num_claim_nums = {}
  /\ num_evidence_nums = {}
  /\ num_ok = TRUE

\* the numeric part of verify_claim
CheckNumbers ==
  /\ num_pc = "ready"
  /\ num_pc' = "checked"
  /\ IF num_enabled
       THEN LET claim_nums ==
                  filter_year_like_numbers(extract_numbers(num_statement))
                evidence_nums ==
                  filter_year_like_numbers(extract_numbers(num_evidence))
            IN /\ num_claim_nums' = claim_nums
               /\ num_evidence_nums' = evidence_nums
               /\ num_ok' = NumericOk(claim_nums, evidence_nums)
       ELSE UNCHANGED << num_claim_nums, num_evidence_nums, num_ok >>
  /\ UNCHANGED << num_enabled, num_statement, num_evidence >>
  /\ UNCHANGED nonNumVars

(***************************************************************************)
(* Part XI.  The keys of the BibTeX entries                                *)
(* (LiteratureResult.to_bibtex, src/llm/edison_client.py).                 *)
(***************************************************************************)
\* authors of a citation: none, or a first author with the given last word
AuthorChoices == { "none", "Smith", "Smith2" }

\* citation.year
YearChoices == { 20, 220, 2020 }

CitationChoices == [ first_author : AuthorChoices, year : YearChoices ]

\* citation.authors[0].split()[-1] if citation.authors else "Unknown"
FirstAuthorLastName(citation) ==
  IF citation.first_author = "none" THEN "Unknown" ELSE citation.first_author

\* f"{first_author}{citation.year}"
BaseKey(citation) == FirstAuthorLastName(citation) \o ToString(citation.year)

\* ord('a')
ORD_A == 97

\* chr(suffix) for the suffixes from ord('a') on
Chr(suffix) ==
  << "a", "b", "c", "d", "e", "f", "g", "h" >>[suffix - ORD_A + 1]

\* a single suffix attempt instead of the loop
next_key_OnlyFirstSuffix(key, base_key, suffix, used) ==
  IF key \in used THEN base_key \o Chr(suffix) ELSE key

\* while key in used_keys: key = f"{base_key}{chr(suffix)}"; suffix += 1
RECURSIVE next_key(_, _, _, _)
next_key(key, base_key, suffix, used) ==
  IF key \in used
    THEN next_key(base_key \o Chr(suffix), base_key, suffix + 1, used)
    ELSE key

InitKeyVars ==
  /\ bibtex_citations \in SeqsUpTo(CitationChoices, MaxEntries)
  /\ used_keys = {}
  /\ bibtex_keys = << >>

\* to_bibtex is not called
KeyIdle ==
  /\ bibtex_citations = << >>
  /\ used_keys = {}
  /\ bibtex_keys = << >>

\* one turn of the loop over self.citations
MintKey ==
  /\ Len(bibtex_keys) < Len(bibtex_citations)
  /\ LET citation == bibtex_citations[Len(bibtex_keys) + 1]
         base_key == BaseKey(citation)
         key == next_key(base_key, base_key, ORD_A, used_keys)
     IN /\ used_keys' = used_keys \cup { key }
        /\ bibtex_keys' = Append(bibtex_keys, key)
  /\ UNCHANGED bibtex_citations
  /\ UNCHANGED nonKeyVars

(***************************************************************************)
(* Part XII.  The numeric fields of CitationAccuracyGateConfig.from_context *)
(* (src/citations/accuracy_gate.py).  Floats are in thousandths.           *)
(***************************************************************************)
\* a raw value of the context: absent, a number, a string that is an integer
\* or a decimal literal, another string, None, an infinite or NaN float, or
\* an integer too large for a float
RawValue(kind, num) == [ kind |-> kind, num |-> num ]

RawThresholds ==
  { RawValue("missing", 0), RawValue("number", -500), RawValue("number", 400),
    RawValue("number", 2000), RawValue("decimal_str", 400),
    RawValue("text", 0), RawValue("inf", 0), RawValue("nan", 0),
    RawValue("huge_int", 0) }

RawItemCounts ==
  { RawValue("missing", 0), RawValue("number", -3000), RawValue("number", 0),
    RawValue("number", 2700), RawValue("int_str", 2000),
    RawValue("decimal_str", 2700), RawValue("none", 0), RawValue("inf", 0),
    RawValue("nan", 0), RawValue("huge_int", 0) }

\* the context entries from_context is given
RawConfigs ==
  [ is_dict : BOOLEAN, enabled : { "missing", "True" },
    on_failure : RawOnFailure,
    min_alignment_score : RawThresholds,
    min_keyword_overlap : { RawValue("missing", 0), RawValue("number", -500) },
    min_entity_overlap : { RawValue("missing", 0), RawValue("number", 2000) },
    max_evidence_items_per_claim : RawItemCounts ]

\* a float: finite (in thousandths), infinite or NaN
Float(kind, num) == [ kind |-> kind, num |-> num ]

\* _as_float(val, default): float(val), the default on TypeError and
\* ValueError; an OverflowError is not caught
as_float(val, default) ==
  CASE val.kind = "missing" -> [ raised |-> FALSE, float |-> Float("finite", default) ]
    [] val.kind \in { "number", "int_str", "decimal_str" } ->
         [ raised |-> FALSE, float |-> Float("finite", val.num) ]
    [] val.kind = "inf" -> [ raised |-> FALSE, float |-> Float("inf", 0) ]
    [] val.kind = "nan" -> [ raised |-> FALSE, float |-> Float("nan", 0) ]
    [] val.kind = "huge_int" -> [ raised |-> TRUE, float |-> Float("finite", default) ]
    [] OTHER -> [ raised |-> FALSE, float |-> Float("finite", default) ]

\* the largest item count the model tells apart
HugeCount == 1000000

\* the number truncated towards zero, as int() does
Truncated(num) == IF num >= 0 THEN num \div 1000 ELSE -((-num) \div 1000)

\* _as_int(val, default): int(val), the default on TypeError and ValueError
\* (a decimal literal, NaN); int(inf) raises OverflowError, which is not
\* caught
as_int(val, default) ==
  CASE val.kind = "missing" -> [ raised |-> FALSE, int |-> default ]
    [] val.kind \in { "number", "int_str" } ->
         [ raised |-> FALSE, int |-> Truncated(val.num) ]
    [] val.kind = "huge_int" -> [ raised |-> FALSE, int |-> HugeCount ]
    [] val.kind = "inf" -> [ raised |-> TRUE, int |-> default ]
    [] OTHER -> [ raised |-> FALSE, int |-> default ]

\* a > b for floats; every comparison with NaN is false
FloatGreater(a, b) ==
  CASE a.kind = "nan" \/ b.kind = "nan" -> FALSE
    [] a.kind = "inf" -> b.kind # "inf"
    [] b.kind = "inf" -> FALSE
    [] OTHER -> a.num > b.num

\* max(a, b) and min(a, b) of Python: the first argument unless the second
\* is greater, or smaller
PyMax(a, b) == IF FloatGreater(b, a) THEN b ELSE a
PyMin(a, b) == IF FloatGreater(a, b) THEN b ELSE a

\* min(1.0, max(0.0, x))
ClampUnit(x) == PyMin(Float("finite", 1000), PyMax(Float("finite", 0), x))

\* max_evidence_items_per_claim of the dataclass
DEFAULT_MAX_EVIDENCE_ITEMS == 5

\* the configuration built from the converted values
SanitizedConfig(raw, alignment, keyword, entity, items) ==
  [ raised |-> FALSE,
    on_failure |-> from_context(raw).on_failure,
    enabled |-> from_context(raw).enabled,
    min_alignment_score |-> ClampUnit(alignment),
    min_keyword_overlap |-> ClampUnit(keyword),
    min_entity_overlap |-> ClampUnit(entity),
    max_evidence_items_per_claim |-> IF items < 1 THEN 1 ELSE items ]

\* cls(): the defaults
DefaultFullConfig ==
  [ raised |-> FALSE, on_failure |-> "block", enabled |-> FALSE,
    min_alignment_score |-> Float("finite", DefaultGateConfig.min_alignment_score),
    min_keyword_overlap |-> Float("finite", DefaultGateConfig.min_keyword_overlap),
    min_entity_overlap |-> Float("finite", DefaultGateConfig.min_entity_overlap),
    max_evidence_items_per_claim |-> DEFAULT_MAX_EVIDENCE_ITEMS ]

\* from_context, all numeric fields included; raised when a conversion
\* raises an exception that is not caught
from_context_numeric(raw) ==
  IF ~raw.is_dict THEN DefaultFullConfig
  ELSE LET alignment == as_float(raw.min_alignment_score, DefaultGateConfig.min_alignment_score)
           keyword == as_float(raw.min_keyword_overlap, DefaultGateConfig.min_keyword_overlap)
           entity == as_float(raw.min_entity_overlap, DefaultGateConfig.min_entity_overlap)
           items == as_int(raw.max_evidence_items_per_claim, DEFAULT_MAX_EVIDENCE_ITEMS)
       IN IF alignment.raised \/ keyword.raised \/ entity.raised \/ items.raised
            THEN [ DefaultFullConfig EXCEPT !.raised = TRUE ]
            ELSE SanitizedConfig(raw, alignment.float, keyword.float, entity.float, items.int)

InitCfgVars ==
  /\ cfg_raw \in RawConfigs
  /\ cfg_pc = "ready"
  /\ cfg_result = DefaultFullConfig

\* from_context is not called
CfgIdle ==
  /\ cfg_raw = [ is_dict |-> FALSE, enabled |-> "missing",
                 on_failure |-> "missing",
                 min_alignment_score |-> RawValue("missing", 0),
                 min_keyword_overlap |-> RawValue("missing", 0),
                 min_entity_overlap |-> RawValue("missing", 0),
                 max_evidence_items_per_claim |-> RawValue("missing", 0) ]
  /\ cfg_pc = "ready"
  /\ cfg_result = DefaultFullConfig

\* CitationAccuracyGateConfig.from_context(context)
FromContext ==
  /\ cfg_pc = "ready"
  /\ cfg_result' = from_context_numeric(cfg_raw)
  /\ cfg_pc' = IF from_context_numeric(cfg_raw).raised
               THEN "raised" ELSE "returned"
  /\ UNCHANGED cfg_raw
  /\ UNCHANGED nonCfgVars

(***************************************************************************)
(* Part XIII.  The phase scripts (run_workflow.py,                         *)
(* scripts/run_literature_workflow.py, scripts/run_gap_resolution.py) as   *)
(* children of execute_phase.                                              *)
(***************************************************************************)
\* the phases whose scripts are modelled
ScriptPhases == { 1, 2, 3 }

\* an entry of result.errors: a text with or without the word "error"
ErrorTexts == { "plain", "error" }

\* what workflow.run gives: a result with success and errors, or an exception
WorkflowResults ==
  [ raised : { FALSE }, success : BOOLEAN,
    errors : SeqsUpTo(ErrorTexts, MaxWorkflowErrors) ]
    \cup { [ raised |-> TRUE, success |-> FALSE, errors |-> << >> ] }

\* a printed line as the monitor of the runner sees it
PlainLine == [ kw |-> {}, reason |-> "" ]
ErrorLine == [ kw |-> { "ERROR" }, reason |-> "" ]

\* exit code of a script that exits non-zero when the workflow failed
script_exit_code_FailOnFailure(has_folder, result) ==
  IF ~has_folder \/ result.raised \/ ~result.success THEN 1 ELSE 0

\* exit code of asyncio.run(main()): sys.exit(1) without a project folder, 1
\* when workflow.run raises, 0 when main returns
script_exit_code(has_folder, result) ==
  IF ~has_folder \/ result.raised THEN 1 ELSE 0

\* the lines main prints: the usage line, or the summary with "Success: ..."
\* and, when result.errors is not empty, "Errors:" and one line per error;
\* the traceback when workflow.run raises
script_output(has_folder, result) ==
  CASE ~has_folder -> << PlainLine >>
    [] result.raised -> << PlainLine, ErrorLine >>
    [] OTHER ->
         << PlainLine, PlainLine >>
           \o (IF result.errors = << >> THEN << >>
               ELSE << ErrorLine >>
                      \o [ k \in 1..Len(result.errors) |->
                             IF result.errors[k] = "error"
                             THEN ErrorLine ELSE PlainLine ])

\* the logger after the lines were handed to process_output_line
RECURSIVE LoggerAfter(_, _, _)
LoggerAfter(lg, lines, phase_id) ==
  IF lines = << >> THEN lg
  ELSE LoggerAfter(process_output_line(lg, Head(lines), phase_id),
                   Tail(lines), phase_id)

NoPhaseRecord == PhaseResult(1, FALSE, 0, FALSE, << >>, 0, 0, 0)

InitScriptVars ==
  /\ script_phase \in ScriptPhases
  /\ script_has_folder \in BOOLEAN
  /\ workflow_result \in WorkflowResults
  /\ script_pc = "start"
  /\ script_exit = 0
  /\ script_lines = << >>
  /\ script_record = NoPhaseRecord
  /\ script_halted = FALSE

\* no phase script runs
ScriptIdle ==
  /\ script_phase = 1
  /\ script_has_folder = TRUE
  /\ workflow_result = [ raised |-> FALSE, success |-> TRUE, errors |-> << >> ]
  /\ script_pc = "start"
  /\ script_exit = 0
  /\ script_lines = << >>
  /\ script_record = NoPhaseRecord
  /\ script_halted = FALSE

\* the script runs its workflow, prints the summary and exits
ScriptMain ==
  /\ script_pc = "start"
  /\ script_pc' = "exited"
  /\ script_exit' = script_exit_code(script_has_folder, workflow_result)
  /\ script_lines' = script_output(script_has_folder, workflow_result)
  /\ UNCHANGED << script_phase, script_has_folder, workflow_result,
                  script_record, script_halted >>
  /\ UNCHANGED nonScriptVars

\* execute_phase has streamed the output and waited; the phase loop records
\* the PhaseResult and leaves the loop on a failed critical phase
RunnerRecords ==
  /\ script_pc = "exited"
  /\ script_pc' = "recorded"
  /\ LET lg == LoggerAfter(reset_counts(NewLogger), script_lines,
                           PIPELINE_PHASES[script_phase].phase_id)
         r == NormalPhaseResult(script_phase, script_exit, lg)
     IN /\ script_record' = r
        /\ script_halted' =
             (~r.success /\ PIPELINE_PHASES[script_phase].is_critical)
  /\ UNCHANGED << script_phase, script_has_folder, workflow_result,
                  script_exit, script_lines >>
  /\ UNCHANGED nonScriptVars

(***************************************************************************)
(* Part XIV.  CitationAccuracyVerifier.verify_claim on a statement and an  *)
(* evidence text (src/citations/accuracy_gate.py): the overlaps are        *)
(* inputs, the numeric check is computed from the two texts as in Part X.  *)
(***************************************************************************)
\* configurations of the verifier: the defaults with either optional check
\* switched on or off
VerifierConfigs ==
  { [ DefaultGateConfig EXCEPT !.enabled = TRUE,
                               !.enable_entity_overlap = e,
                               !.enable_numeric_consistency = n ] :
      e \in BOOLEAN, n \in BOOLEAN }

\* entity overlaps below and above min_entity_overlap
EntityOverlaps == { 100, 1000 }

\* statements with at most two atoms
VerifiedStatements == { text \in StatementTexts : Len(text) <= MaxTextLen - 1 }

NoReport ==
  [ evidence_ids |-> {}, checked |-> FALSE, ok |-> TRUE, reasons |-> << >>,
    alignment_score |-> 0 ]

\* numeric_ok of verify_claim for the two texts
numeric_ok_of(statement, evidence_text) ==
  NumericOk(filter_year_like_numbers(extract_numbers(statement)),
            filter_year_like_numbers(extract_numbers(evidence_text)))

InitVerVars ==
  /\ ver_cfg \in VerifierConfigs
  /\ ver_statement \in VerifiedStatements
  /\ ver_evidence \in EvidenceTexts
  /\ ver_keyword_overlap \in KeywordOverlaps
  /\ ver_entity_overlap \in EntityOverlaps
  /\ ver_pc = "ready"
  /\ ver_report = NoReport

\* no claim is verified
VerIdle ==
  /\ ver_cfg = DefaultGateConfig
  /\ ver_statement = << >>
  /\ ver_evidence = << >>
  /\ ver_keyword_overlap = 0
  /\ ver_entity_overlap = 0
  /\ ver_pc = "ready"
  /\ ver_report = NoReport

\* verify_claim(claim, evidence_items)
VerifyClaim ==
  /\ ver_pc = "ready"
  /\ ver_pc' = "verified"
  /\ ver_report' =
       verify_claim(ver_cfg,
         [ evidence_ids |-> { "e1" },
           keyword_overlap |-> ver_keyword_overlap,
           entity_overlap |-> ver_entity_overlap,
           numeric_ok |-> numeric_ok_of(ver_statement, ver_evidence) ])
  /\ UNCHANGED << ver_cfg, ver_statement, ver_evidence, ver_keyword_overlap,
                  ver_entity_overlap >>
  /\ UNCHANGED nonVerVars

(***************************************************************************)
(* Part XV.  What search_literature and search_literature_sync make of the *)
(* value the provider call returns (src/llm/edison_client.py).             *)
(***************************************************************************)
\* None
None == "None"

\* a PQATaskResponse: answer, formatted_answer ("" when not set), its
\* structured citations and the id of the job
TaskResponses ==
  [ kind : { "object" }, answer : { "a1", "a2" },
    formatted_answer : { "", "f1" },
    citations : { << >>, << "c1" >> }, id : { "j1", "j2" } ]

\* the provider returns one response object or a list of them
ProviderReturnValues ==
  TaskResponses
    \cup { [ kind |-> "list", items |-> items ] :
             items \in SeqsUpTo(TaskResponses, MaxResponses) }

\* "if isinstance(task_response, list) and len(task_response) > 0"
actual_response_of(response) ==
  IF response.kind = "list" /\ Len(response.items) > 0
  THEN response.items[1] ELSE response

\* getattr(x, 'formatted_answer', None), then "if not answer":
\* getattr(x, 'answer', str(x)); an empty list has neither attribute
answer_of(actual_response) ==
  IF actual_response.kind = "list" THEN "[]"
  ELSE IF actual_response.formatted_answer # ""
       THEN actual_response.formatted_answer
       ELSE actual_response.answer

\* _parse_citations for structured citations; a list has none
citations_of(actual_response) ==
  IF actual_response.kind = "list" THEN << >>
  ELSE actual_response.citations

\* variant: the id of the response that was used
job_id_of_FromActual(response) ==
  IF actual_response_of(response).kind = "list" THEN None
  ELSE actual_response_of(response).id

\* getattr(task_response, 'id', None) on the value the provider returned
job_id_of(response) ==
  IF response.kind = "list" THEN None ELSE response.id

NoLiteratureResult ==
  [ response |-> "", citations |-> << >>, total_papers_searched |-> 0,
    job_id |-> None, status |-> "none" ]

InitNormVars ==
  /\ task_response \in ProviderReturnValues
  /\ norm_sync \in BOOLEAN
  /\ norm_pc = "answered"
  /\ literature_result = NoLiteratureResult

\* no search has been answered
NormIdle ==
  /\ task_response = [ kind |-> "list", items |-> << >> ]
  /\ norm_sync = FALSE
  /\ norm_pc = "answered"
  /\ literature_result = NoLiteratureResult

\* the COMPLETED result is built; both entry points run the same statements
BuildLiteratureResult ==
  /\ norm_pc = "answered"
  /\ norm_pc' = "returned"
  /\ LET actual_response == actual_response_of(task_response)
         citations == citations_of(actual_response)
     IN literature_result' =
          [ response |-> answer_of(actual_response),
            citations |-> citations,
            total_papers_searched |-> Len(citations),
            job_id |-> job_id_of(task_response),
            status |-> "COMPLETED" ]
  /\ UNCHANGED << task_response, norm_sync >>
  /\ UNCHANGED nonNormVars

(***************************************************************************)
(* Part XVI.  CriticalReviewAgent: execute, _parse_feedback and            *)
(* review_agent_result (src/agents/critical_review.py).  FeedbackResponse  *)
(* and its to_dict / from_dict are modelled from the specification.        *)
(***************************************************************************)
\* the value of a key of the JSON object: << >> when the object does not
\* have the key
Missing == << >>

\* what the text of a response holds: no {...} at all, a {...} that is not
\* JSON, or a JSON object with the keys the parser reads
ResponseShapes ==
  { [ json |-> "none" ], [ json |-> "invalid" ] }
    \cup [ json : { "object" },
           scores_is_object : BOOLEAN,
           overall : { Missing, << 900 >> },
           severities : { << >>, << "critical" >> },
           revision_required : { Missing, << TRUE >>, << FALSE >> } ]

ClaudeOutcomes == { [ raised |-> TRUE ] } \cup [ raised : { FALSE }, response : ResponseShapes ]

\* FeedbackResponse
FeedbackResponse(request_id, overall, severities, summary, revision_required) ==
  [ request_id |-> request_id, reviewer_agent_id |-> "A12",
    overall |-> overall, severities |-> severities, summary |-> summary,
    revision_required |-> revision_required ]

\* FeedbackResponse.to_dict: the fields as a JSON object, the quality score
\* nested and the issues as objects
to_dict(feedback) ==
  [ request_id |-> feedback.request_id,
    reviewer_agent_id |-> feedback.reviewer_agent_id,
    quality_score |-> [ overall |-> feedback.overall ],
    issues |-> [ k \in 1..Len(feedback.severities) |->
                   [ severity |-> feedback.severities[k] ] ],
    summary |-> feedback.summary,
    revision_required |-> feedback.revision_required ]

\* FeedbackResponse.from_dict
from_dict(data) ==
  FeedbackResponse(data.request_id, data.quality_score.overall,
                   [ k \in 1..Len(data.issues) |-> data.issues[k].severity ],
                   data.summary, data.revision_required)

\* variant: the default feedback of an unparseable response asks for no
\* revision
parse_feedback_DefaultApproves(response) ==
  IF response.json # "object"
  THEN [ raised |-> FALSE,
         feedback |-> FeedbackResponse("uuid", 500, << >>,
                        "Unable to parse review response", FALSE) ]
  ELSE IF ~response.scores_is_object THEN [ raised |-> TRUE ]
  ELSE [ raised |-> FALSE,
         feedback |-> FeedbackResponse("uuid",
           IF response.overall = Missing THEN 500 ELSE response.overall[1],
           response.severities, "",
           IF response.revision_required = Missing THEN FALSE
           ELSE response.revision_required[1]) ]

\* _parse_feedback: the default feedback when no JSON object can be read
\* from the response; an AttributeError when "quality_scores" is not an
\* object; else the feedback built from the object, with the defaults of
\* data.get
parse_feedback(response) ==
  IF response.json # "object"
  THEN [ raised |-> FALSE,
         feedback |-> FeedbackResponse("uuid", 500, << >>,
                        "Unable to parse review response", TRUE) ]
  ELSE IF ~response.scores_is_object THEN [ raised |-> TRUE ]
  ELSE [ raised |-> FALSE,
         feedback |-> FeedbackResponse("uuid",
           IF response.overall = Missing THEN 500 ELSE response.overall[1],
           response.severities, "",
           IF response.revision_required = Missing THEN FALSE
           ELSE response.revision_required[1]) ]

\* the AgentResult of execute
FailedReview(error) == [ success |-> FALSE, error |-> error ]
SucceededReview(feedback) ==
  [ success |-> TRUE, error |-> "", feedback |-> to_dict(feedback) ]

\* execute(context): no content, an exception of the call or of the
\* parsing, or the parsed feedback in structured_data
execute(content, outcome) ==
  IF content = "" THEN FailedReview("No content provided for review")
  ELSE IF outcome.raised THEN FailedReview("call")
  ELSE IF parse_feedback(outcome.response).raised THEN FailedReview("parse")
  ELSE SucceededReview(parse_feedback(outcome.response).feedback)

\* the feedback review_agent_result returns for a failed review
ReviewFailedFeedback ==
  FeedbackResponse("error", 0, << "critical" >>, "Critical review failed", TRUE)

NoFeedback == FeedbackResponse("none", 0, << >>, "", FALSE)

InitReviewVars ==
  /\ review_content \in { "", "draft" }
  /\ claude_outcome \in ClaudeOutcomes
  /\ review_pc = "ready"
  /\ review_result = FailedReview("")
  /\ review_feedback = NoFeedback

\* no review is asked for
ReviewIdle ==
  /\ review_content = ""
  /\ claude_outcome = [ raised |-> TRUE ]
  /\ review_pc = "ready"
  /\ review_result = FailedReview("")
  /\ review_feedback = NoFeedback

\* review_agent_result awaits self.execute(context)
ExecuteReview ==
  /\ review_pc = "ready"
  /\ review_pc' = "executed"
  /\ review_result' = execute(review_content, claude_outcome)
  /\ UNCHANGED << review_content, claude_outcome, review_feedback >>
  /\ UNCHANGED nonReviewVars

\* review_agent_result returns the feedback of the result, or the default
\* feedback of a failed review
ReturnFeedback ==
  /\ review_pc = "executed"
  /\ review_pc' = "returned"
  /\ review_feedback' =
       IF review_result.success THEN from_dict(review_result.feedback)
       ELSE ReviewFailedFeedback
  /\ UNCHANGED << review_content, claude_outcome, review_result >>
  /\ UNCHANGED nonReviewVars

(***************************************************************************)
(* Part XVII.  inject_generated_sections_into_main and its call in         *)
(* assemble_paper (src/paper/assembly.py).  A text is a sequence of lines; *)
(* a line is what it says and how many "% " were put in front of it.  The  *)
(* two-line markers of the introduction and of the references are one      *)
(* line each.                                                              *)
(***************************************************************************)
Line(name, level) == [ name |-> name, level |-> level ]

\* _AUTOGEN_INPUT_BEGIN, _AUTOGEN_DISABLE_BEGIN, _AUTOGEN_ARTIFACTS_BEGIN
AutogenBeginMarkers == { "input_begin", "disable_begin", "artifacts_begin" }

\* the lines of a main.tex that assemble_paper has not touched
TemplateLines ==
  { Line(n, 0) : n \in { "intro_marker", "refs_marker", "body" }
                         \cup AutogenBeginMarkers }

MainTexts == SeqsUpTo(TemplateLines, MaxLines)

\* "marker in main_tex" for a one-line AUTOGEN marker: a substring, found
\* behind any number of "% " as well
HasAutogen(text, marker) == \E i \in 1..Len(text) : text[i].name = marker

\* main_tex.find(marker) for a two-line marker: the first place where it
\* stands as written, 0 for -1; "% " put in front of its two lines breaks it
Find(text, marker) ==
  LET places == { i \in 1..Len(text) : text[i] = Line(marker, 0) }
  IN IF places = {} THEN 0
     ELSE CHOOSE i \in places : \A j \in places : i <= j

\* "% " + template_sections.replace("\n", "\n% ")
Disabled(template_sections) ==
  IF template_sections = << >> THEN << Line("empty", 1) >>
  ELSE [ i \in 1..Len(template_sections) |->
           Line(template_sections[i].name, template_sections[i].level + 1) ]

InjectResult(tex, changed, error) ==
  [ tex |-> tex, changed |-> changed, error |-> error ]

\* variant: the text is patched whether or not it holds the AUTOGEN markers
inject_generated_sections_into_main_NoAutogenCheck(main_tex) ==
  LET intro_idx == Find(main_tex, "intro_marker")
      refs_idx == Find(main_tex, "refs_marker")
  IN IF intro_idx = 0
       THEN InjectResult(main_tex, FALSE, "intro_marker_not_found")
     ELSE IF refs_idx = 0
       THEN InjectResult(main_tex, FALSE, "refs_marker_not_found")
     ELSE InjectResult(
            SubSeq(main_tex, 1, intro_idx - 1)
              \o << Line("input_begin", 0), Line("input_sections", 0),
                    Line("input_end", 0) >>
              \o << Line("artifacts_begin", 0), Line("input_tables", 0),
                    Line("input_figures", 0), Line("artifacts_end", 0) >>
              \o << Line("disable_begin", 0), Line("disabled_note", 0) >>
              \o Disabled(SubSeq(main_tex, intro_idx, refs_idx - 1))
              \o << Line("disable_end", 0) >>
              \o SubSeq(main_tex, refs_idx, Len(main_tex)),
            TRUE, None)

\* inject_generated_sections_into_main(main_tex)
inject_generated_sections_into_main(main_tex) ==
  IF \A marker \in AutogenBeginMarkers : HasAutogen(main_tex, marker)
  THEN InjectResult(main_tex, FALSE, None)
  ELSE LET intro_idx == Find(main_tex, "intro_marker")
           refs_idx == Find(main_tex, "refs_marker")
       IN IF intro_idx = 0
            THEN InjectResult(main_tex, FALSE, "intro_marker_not_found")
          ELSE IF refs_idx = 0
            THEN InjectResult(main_tex, FALSE, "refs_marker_not_found")
          ELSE InjectResult(
                 SubSeq(main_tex, 1, intro_idx - 1)
                   \o << Line("input_begin", 0), Line("input_sections", 0),
                         Line("input_end", 0) >>
                   \o << Line("artifacts_begin", 0), Line("input_tables", 0),
                         Line("input_figures", 0), Line("artifacts_end", 0) >>
                   \o << Line("disable_begin", 0), Line("disabled_note", 0) >>
                   \o Disabled(SubSeq(main_tex, intro_idx, refs_idx - 1))
                   \o << Line("disable_end", 0) >>
                   \o SubSeq(main_tex, refs_idx, Len(main_tex)),
                 TRUE, None)

InitPaperVars ==
  /\ paper_main \in MainTexts
  /\ inject_results = << >>
  /\ paper_issues = << >>

\* assemble_paper is not run
PaperIdle ==
  /\ paper_main = << >>
  /\ inject_results = << >>
  /\ paper_issues = << >>

\* assemble_paper on a project whose paper/main.tex exists: the text is
\* read, patched and, when it changed, written back; an error code becomes
\* the issue main_tex_patch_failed
AssemblePaper ==
  /\ Len(inject_results) < MaxAssemblies
  /\ LET result == inject_generated_sections_into_main(paper_main)
     IN /\ paper_main' = IF result.changed THEN result.tex ELSE paper_main
        /\ paper_issues' = IF result.error # None
                           THEN << "main_tex_patch_failed" >> ELSE << >>
        /\ inject_results' =
             Append(inject_results,
                    [ input |-> paper_main, output |-> result.tex,
                      changed |-> result.changed, error |-> result.error ])
  /\ UNCHANGED nonPaperVars

\* the parts after part V take no step
ExtIdle == BibIdle /\ ResIdle /\ ConvIdle /\ DelibIdle /\ NumIdle /\ KeyIdle /\ CfgIdle /\ ScriptIdle /\ VerIdle /\ NormIdle /\ ReviewIdle /\ PaperIdle

Next ==
  \/ Validate \/ Preflight
  \/ ScriptMissing \/ SpawnFails \/ Spawn
  \/ ChildEmitsLine \/ ChildEvaluatesGate \/ ChildExits \/ ChildClosesOutput
  \/ StreamEnds \/ Tick \/ WaitReturns \/ TimeoutExpired
  \/ PostRun \/ Exit

\* the runner; the literature client is not used
Init ==
  /\ InitRunner
  /\ InitLitVars
  /\ available = TRUE
  /\ init_error = ""
  /\ GateIdle
  /\ PurgeIdle
  /\ EnvIdle
  /\ ExtIdle

Spec == Init /\ [][Next]_vars

NextLit ==
  \/ \E c \in Calls : StartCall(c)
  \/ \E c \in Calls : CheckAndRegister(c)
  \/ \E c \in Calls : ProviderReturns(c)
  \/ \E c \in Calls : ProviderRaises(c)
  \/ \E c \in Calls : Restamp(c)
  \/ LitTick

\* the literature client; the runner stays in its initial state
InitLit ==
  /\ InitLitVars
  /\ \E api_key \in ApiKeys, ctor_error \in ConstructorErrors :
       /\ available = EdisonClient_init(api_key, ctor_error).client_built
       /\ init_error = EdisonClient_init(api_key, ctor_error).init_error
  /\ InitRunner
  /\ project_exists = TRUE
  /\ dry_run = FALSE
  /\ GateIdle
  /\ PurgeIdle
  /\ EnvIdle
  /\ ExtIdle

SpecLit == InitLit /\ [][NextLit]_vars

NextGate == CheckGate \/ EnforceGate

\* one evaluation of the gate; the runner and the literature client stay in
\* their initial states
InitGate ==
  /\ InitGateVars
  /\ InitRunner
  /\ project_exists = TRUE
  /\ dry_run = FALSE
  /\ InitLitVars
  /\ available = TRUE
  /\ init_error = ""
  /\ PurgeIdle
  /\ EnvIdle
  /\ ExtIdle

SpecGate == InitGate /\ [][NextGate]_vars

\* the runner, the client and the gate as in their initial states
OthersIdle ==
  /\ InitRunner
  /\ project_exists = TRUE
  /\ dry_run = FALSE
  /\ InitLitVars
  /\ available = TRUE
  /\ init_error = ""
  /\ GateIdle

NextPurge ==
  \/ RunEnvironmentPurge
  \/ PhaseWritesOutput
  \/ PycacheWritten
  \/ TempWritten
  \/ ClockAdvances

\* successive purges of one project folder
InitPurge == InitPurgeVars /\ OthersIdle /\ EnvIdle /\ ExtIdle

SpecPurge == InitPurge /\ [][NextPurge]_vars

NextEnv == \E p \in Parents : BuildChildEnv(p)

\* two parents build the environment of their phase child
InitEnv == InitEnvVars /\ OthersIdle /\ PurgeIdle /\ ExtIdle

SpecEnv == InitEnv /\ [][NextEnv]_vars

\* the parts I to V as in their initial states
CoreIdle == OthersIdle /\ PurgeIdle /\ EnvIdle

NextBib == BuildBibliography

\* one bibliography build
InitBib == InitBibVars /\ CoreIdle /\ ResIdle /\ ConvIdle /\ DelibIdle /\ NumIdle /\ KeyIdle /\ CfgIdle /\ ScriptIdle /\ VerIdle /\ NormIdle /\ ReviewIdle /\ PaperIdle

SpecBib == InitBib /\ [][NextBib]_vars

NextDoi == NormalizeDoi

\* one DOI string normalized twice
InitDoi == InitDoiVars /\ CoreIdle /\ ResIdle /\ ConvIdle /\ DelibIdle /\ NumIdle /\ KeyIdle /\ CfgIdle /\ ScriptIdle /\ VerIdle /\ NormIdle /\ ReviewIdle /\ PaperIdle

SpecDoi == InitDoi /\ [][NextDoi]_vars

NextRes == ReuseOrResolve \/ CallPrimary \/ CallSecondary

\* one DOI resolved for one citation key
InitRes == InitResVars /\ CoreIdle /\ BibIdle /\ ConvIdle /\ DelibIdle /\ NumIdle /\ KeyIdle /\ CfgIdle /\ ScriptIdle /\ VerIdle /\ NormIdle /\ ReviewIdle /\ PaperIdle

SpecRes == InitRes /\ [][NextRes]_vars

NextConv == ReviseOnce

\* one revision loop
InitConv == InitConvVars /\ CoreIdle /\ BibIdle /\ ResIdle /\ DelibIdle /\ NumIdle /\ KeyIdle /\ CfgIdle /\ ScriptIdle /\ VerIdle /\ NormIdle /\ ReviewIdle /\ PaperIdle

SpecConv == InitConv /\ [][NextConv]_vars

NextDelib ==
  \/ \E r \in Runs, agent \in Agents : AgentCompletes(r, agent)
  \/ \E r \in Runs : Consolidate(r)

\* two deliberations over the same outputs
InitDelib == InitDelibVars /\ CoreIdle /\ BibIdle /\ ResIdle /\ ConvIdle /\ NumIdle /\ KeyIdle /\ CfgIdle /\ ScriptIdle /\ VerIdle /\ NormIdle /\ ReviewIdle /\ PaperIdle

SpecDelib == InitDelib /\ [][NextDelib]_vars

NextNum == CheckNumbers

\* one numeric-consistency check
InitNum ==
  InitNumVars /\ CoreIdle /\ BibIdle /\ ResIdle /\ ConvIdle /\ DelibIdle
    /\ KeyIdle
    /\ CfgIdle
    /\ ScriptIdle
    /\ VerIdle
    /\ NormIdle
    /\ ReviewIdle
    /\ PaperIdle

SpecNum == InitNum /\ [][NextNum]_vars

NextKey == MintKey

\* one call of to_bibtex
InitKey ==
  InitKeyVars /\ CoreIdle /\ BibIdle /\ ResIdle /\ ConvIdle /\ DelibIdle
    /\ NumIdle
    /\ CfgIdle
    /\ ScriptIdle
    /\ VerIdle
    /\ NormIdle
    /\ ReviewIdle
    /\ PaperIdle

SpecKey == InitKey /\ [][NextKey]_vars

NextCfg == FromContext

\* one call of from_context
InitCfg ==
  InitCfgVars /\ CoreIdle /\ BibIdle /\ ResIdle /\ ConvIdle /\ DelibIdle
    /\ NumIdle /\ KeyIdle
    /\ ScriptIdle
    /\ VerIdle
    /\ NormIdle
    /\ ReviewIdle
    /\ PaperIdle

SpecCfg == InitCfg /\ [][NextCfg]_vars

NextScript == ScriptMain \/ RunnerRecords

\* one phase script run under the runner
InitScript ==
  InitScriptVars /\ CoreIdle /\ BibIdle /\ ResIdle /\ ConvIdle /\ DelibIdle
    /\ NumIdle /\ KeyIdle /\ CfgIdle
    /\ VerIdle
    /\ NormIdle
    /\ ReviewIdle
    /\ PaperIdle

SpecScript == InitScript /\ [][NextScript]_vars

\* The phase loop from the third phase on, after the second phase (not
\* critical) printed one line, closed its output and timed out: the
\* except branch of execute_phase returned without touching the logger.
LoggerAfterTimedOutPhase(line) ==
  process_output_line(reset_counts(NewLogger), line,
                      PIPELINE_PHASES[2].phase_id)

InitAfterTimeout ==
  /\ pc = "loop"
  /\ project_exists = TRUE
  /\ dry_run = FALSE
  /\ idx = 3
  /\ phases = << NormalPhaseResult(1, 0, NewLogger), FailedPhaseResult(2) >>
  /\ overall_success = FALSE
  /\ degradation_summary = << >>
  /\ \E line \in LineShapes : logger = LoggerAfterTimedOutPhase(line)
  /\ child = "killed"
  /\ child_exit = 0
  /\ elapsed = 0
  /\ waited = 0
  /\ events = 0
  /\ gates = << >>
  /\ started = << PIPELINE_PHASES[1].phase_id, PIPELINE_PHASES[2].phase_id >>
  /\ project_files = {}
  /\ exit_status = "none"
  /\ InitLitVars
  /\ available = TRUE
  /\ init_error = ""
  /\ GateIdle
  /\ PurgeIdle
  /\ EnvIdle
  /\ ExtIdle

NextAfterTimeout ==
  \/ ScriptMissing \/ SpawnFails \/ Spawn
  \/ ChildEmitsLine \/ ChildEvaluatesGate \/ ChildExits \/ ChildClosesOutput
  \/ StreamEnds \/ Tick \/ WaitReturns \/ TimeoutExpired
  \/ PostRun \/ Exit

SpecAfterTimeout == InitAfterTimeout /\ [][NextAfterTimeout]_vars

NextVer == VerifyClaim

\* one call of verify_claim
InitVer ==
  InitVerVars /\ CoreIdle /\ BibIdle /\ ResIdle /\ ConvIdle /\ DelibIdle
    /\ NumIdle /\ KeyIdle /\ CfgIdle /\ ScriptIdle
    /\ NormIdle
    /\ ReviewIdle
    /\ PaperIdle

SpecVer == InitVer /\ [][NextVer]_vars

NextNorm == BuildLiteratureResult

\* one answered literature search
InitNorm ==
  InitNormVars /\ CoreIdle /\ BibIdle /\ ResIdle /\ ConvIdle /\ DelibIdle
    /\ NumIdle /\ KeyIdle /\ CfgIdle /\ ScriptIdle /\ VerIdle
    /\ ReviewIdle
    /\ PaperIdle

SpecNorm == InitNorm /\ [][NextNorm]_vars

NextReview == ExecuteReview \/ ReturnFeedback

\* one critical review
InitReview ==
  InitReviewVars /\ CoreIdle /\ BibIdle /\ ResIdle /\ ConvIdle /\ DelibIdle
    /\ NumIdle /\ KeyIdle /\ CfgIdle /\ ScriptIdle /\ VerIdle /\ NormIdle
    /\ PaperIdle

SpecReview == InitReview /\ [][NextReview]_vars

NextPaper == AssemblePaper

\* repeated assemblies of one paper
InitPaper ==
  InitPaperVars /\ CoreIdle /\ BibIdle /\ ResIdle /\ ConvIdle /\ DelibIdle
    /\ NumIdle /\ KeyIdle /\ CfgIdle /\ ScriptIdle /\ VerIdle /\ NormIdle
    /\ ReviewIdle

SpecPaper == InitPaper /\ [][NextPaper]_vars

(***************************************************************************)
(* Properties of the runner (specification Spec).                          *)
(***************************************************************************)
Finished == pc = "done"
ChildAlive == child \in {"running", "detached"}
Successful == SuccessfulCount(phases)
Degraded == DegradedCount(phases)
Total == Len(phases)
CleanRun == Successful = Total /\ Degraded = 0
CriticalFailed ==
  \E k \in 1..Len(phases) :
    ~phases[k].success /\ PIPELINE_PHASES[k].is_critical
GateBlocked == \E k \in 1..Len(gates) : gates[k].action = "block"
DeclaredIds(n) == [ k \in 1..n |-> PIPELINE_PHASES[k].phase_id ]

\* C1: whenever a run ends with overall_success = true, every recorded phase
\* has success = true and no gate returned action = block.
C1_SuccessMeansNoFailureNoBlock ==
  (Finished /\ overall_success) =>
     /\ \A k \in 1..Len(phases) : phases[k].success
     /\ ~GateBlocked

\* C2: the pipeline stops executing phases exactly when a critical phase has
\* failed: no phase is started once a critical phase failed, the loop is left
\* early only on such a failure, and after any other result (a non-critical
\* failure included) control returns to the loop head for the next declared
\* phase.
C2_HaltExactlyOnCriticalFailure ==
  /\ [][ Len(started') > Len(started) => ~CriticalFailed ]_vars
  /\ [][ Len(phases') > Len(phases) =>
           LET n == Len(phases')
               r == phases'[n]
           IN IF ~r.success /\ PIPELINE_PHASES[n].is_critical
              THEN pc' = "post"
              ELSE IF n < NumPhases
                   THEN pc' = "loop" /\ idx' = n + 1
                   ELSE pc' = "post" ]_vars
  /\ [](pc \in {"post", "returned", "done"} /\ Total > 0
          => (Total = NumPhases \/ CriticalFailed))
  /\ [](pc = "loop" => idx = Total + 1 /\ idx <= NumPhases)

\* a non-critical phase failed and the phase declared after it was started
C2_Witness ==
  /\ Len(phases) >= 2
  /\ ~phases[2].success
  /\ Len(started) >= 3
  /\ started[3] = "phase_3"

C4_ReportsLeftBehind ==
  (Finished /\ Total > 0) =>
     {"autonomous_run_result.json", "outputs/degradation_summary.json"}
        \subseteq project_files

\* C5: if a gate returns action = block, no phase after the gate's phase is
\* started and the run ends with overall_success = false.
C5_GateBlockHalts ==
  \A k \in 1..Len(gates) :
    gates[k].action = "block" =>
       /\ started[Len(started)] = gates[k].phase
       /\ (Finished => ~overall_success)

\* C6: a phase child is not alive more than DEFAULT_PHASE_TIMEOUT seconds
\* after the phase started: it has exited or has been terminated by then.
C6_ChildTerminatedAtTimeout ==
  ChildAlive => elapsed <= DEFAULT_PHASE_TIMEOUT

\* C9: at the end of a run that executed phases, overall_success is true
\* exactly when every executed phase succeeded and none is degraded.
C9_OverallSuccessExact ==
  (Finished /\ Total > 0) => (overall_success <=> CleanRun)

\* C10 (as stated): the runner exits with 0 when the run succeeded or ended
\* degraded with a majority of its executed phases successful, and with 1 in
\* every other case.
C10_ExitZeroIffSuccessOrMajority ==
  Finished =>
    exit_status =
      IF project_exists /\ (CleanRun \/ 2 * Successful > Total) THEN 0 ELSE 1

\* C10 (amended): the runner exits with 0 when the run succeeded or at least
\* one and at least half (total // 2, integer division) of its executed
\* phases were successful, and with 1 in every other case (a missing
\* project folder included).
C10_ExitZeroIffSuccessOrHalf ==
  Finished =>
    exit_status =
      IF project_exists
           /\ (CleanRun \/ (Successful > 0 /\ Successful >= Total \div 2))
      THEN 0 ELSE 1

\* exactly half of the executed phases succeeded and the runner exited with 0
C10_Witness ==
  /\ Finished
  /\ Total = NumPhases
  /\ 2 * Successful = Total
  /\ exit_status = 0

\* the degradation reasons the logger holds that were read from the output
\* of the phase with the given id
ObservedReasons(phase_id) ==
  { k \in 1..Len(logger.degradation_reasons) :
      logger.degradation_reasons[k][1] = phase_id }

\* C11: every PhaseResult the executor produces is marked degraded when a
\* degradation reason was observed in the output of its phase, and when it
\* has success = false with a non-zero error count.
C11_DegradedMarked ==
  [][ Len(phases') > Len(phases) =>
        LET r == phases'[Len(phases')]
        IN /\ ObservedReasons(r.phase_id) # {} => r.degraded
           /\ (~r.success /\ r.error_count > 0) => r.degraded ]_vars

(***************************************************************************)
(* Properties of the literature client (specification SpecLit).            *)
(***************************************************************************)
\* the registered calls other than c that carry c's fingerprint
PriorSubmitted(c) ==
  { d \in Calls \ {c} :
      /\ calls[d].submitted_at # Absent
      /\ calls[d].query_hash = calls[c].query_hash }

\* C7: at most one submission per fingerprint is in flight at any time.
C7_OneSubmissionPerFingerprint ==
  \A c, d \in Calls :
    (c # d /\ InFlight(c) /\ InFlight(d))
       => calls[c].query_hash # calls[d].query_hash

GateEvaluated == gate_pc \in {"returned", "enforced", "raised"}

\* the claims whose evidence ids are absent or not all resolvable
UnresolvedClaims ==
  { k \in 1..Len(gate_claims) :
      \/ gate_claims[k].evidence_ids = {}
      \/ ~(gate_claims[k].evidence_ids \subseteq evidence_map) }

\* the claims that are scored against their evidence and found misaligned
MisalignedClaims ==
  { k \in 1..Len(gate_claims) \ UnresolvedClaims :
      ~verify_claim(GateConfig, gate_claims[k]).ok }

\* C12: the gate returns action = disabled iff enabled is false, block iff
\* it is enabled, a claim failed and on_failure = block, downgrade iff it is
\* enabled, a claim failed and on_failure = downgrade, and pass otherwise;
\* ok is true iff the action is not block.
C12_GateActionTable ==
  GateEvaluated =>
    LET cfg == GateConfig
        any_failed == MisalignedClaims # {}
        action == gate_result.action
    IN /\ action \in {"disabled", "block", "downgrade", "pass"}
       /\ action = "disabled" <=> ~cfg.enabled
       /\ action = "block"
            <=> (cfg.enabled /\ any_failed /\ cfg.on_failure = "block")
       /\ action = "downgrade"
            <=> (cfg.enabled /\ any_failed /\ cfg.on_failure = "downgrade")
       /\ action = "pass" <=> (cfg.enabled /\ ~any_failed)
       /\ gate_result.ok <=> action # "block"

\* an enabled gate with on_failure = downgrade found a misaligned claim
C12_Witness ==
  /\ GateEvaluated
  /\ GateConfig.enabled
  /\ GateConfig.on_failure = "downgrade"
  /\ MisalignedClaims # {}
  /\ gate_result.action = "downgrade"
  /\ gate_result.ok

\* C13: a claim whose evidence ids are absent or cannot all be resolved is
\* reported with checked = false and ok = true and is not counted as failed;
\* when no other claim fails the gate neither blocks nor downgrades.
C13_MissingEvidenceIsSkipped ==
  (GateEvaluated /\ GateConfig.enabled) =>
    /\ \A k \in UnresolvedClaims :
          /\ ~gate_result.reports[k].checked
          /\ gate_result.reports[k].ok
    /\ gate_result.failed_claims_total = Cardinality(MisalignedClaims)
    /\ gate_result.skipped_missing_evidence_total
         = Cardinality(UnresolvedClaims)
    /\ MisalignedClaims = {} => gate_result.action = "pass"

\* a claim with low overlap, one of whose two evidence ids is unknown, was
\* skipped and the blocking gate passed
C13_Witness ==
  /\ GateEvaluated
  /\ GateConfig.enabled
  /\ GateConfig.on_failure = "block"
  /\ evidence_map = {"e1"}
  /\ \E k \in 1..Len(gate_claims) :
       /\ gate_claims[k].evidence_ids = {"e1", "e2"}
       /\ gate_claims[k].keyword_overlap = 50
       /\ ~gate_result.reports[k].checked
  /\ gate_result.action = "pass"

\* C17: with the context built by default_gate_config, mode skip gives
\* action = disabled, mode warn gives downgrade on failure and never block,
\* and block is returned under mode block only.
C17_ModeDecidesAction ==
  (GateEvaluated /\ gate_mode # "custom") =>
    /\ gate_mode = "skip" => gate_result.action = "disabled"
    /\ gate_mode = "warn" =>
          /\ gate_result.action # "block"
          /\ MisalignedClaims # {} => gate_result.action = "downgrade"
    /\ gate_result.action = "block" => gate_mode = "block"

\* under mode warn a misaligned claim downgraded the gate
C17_Witness ==
  /\ GateEvaluated
  /\ gate_mode = "warn"
  /\ MisalignedClaims # {}
  /\ gate_result.action = "downgrade"

\* C14: a client whose provider client could not be built has
\* is_available = false, and each of its search calls has returned FAILED
\* with the initialisation error (the text captured from the constructor,
\* or the fixed "not configured" text when the key is missing) without any
\* submission to the provider.
C14_UnavailableClientFails ==
  ~available =>
    /\ \A c \in Calls :
          /\ ~InFlight(c)
          /\ calls[c].attempts = 0
          /\ calls[c].submitted_at = Absent
          /\ calls[c].st # "idle" =>
                /\ calls[c].st = "done"
                /\ calls[c].status = "FAILED"
                /\ calls[c].error = UnavailableError(init_error)
    /\ \A h \in Fingerprints : active_requests[h] = Absent

\* a client whose construction failed has answered a synchronous and an
\* asynchronous search with the captured error
C14_Witness ==
  /\ ~available
  /\ init_error = "auth failed"
  /\ \E c, d \in Calls :
       /\ calls[c].mode = "sync" /\ calls[d].mode = "async"
       /\ calls[c].st = "done" /\ calls[d].st = "done"
       /\ calls[c].error = "auth failed" /\ calls[d].error = "auth failed"

C16_LockNotHeldAcrossAwait ==
  /\ lock # 0 => calls[lock].st \in {"in_lock", "finally_in_lock"}
  /\ \A c \in Calls : InFlight(c) => lock # c

\* while the job of one call is running, another call made its duplicate
\* check and was submitted too
C16_Witness ==
  \E c, d \in Calls :
    /\ c # d
    /\ calls[c].mode = "async" /\ calls[d].mode = "async"
    /\ calls[c].st = "awaiting" /\ calls[d].st = "awaiting"
    /\ lock = 0

(***************************************************************************)
(* Properties of the pre-flight purge (specification SpecPurge).           *)
(***************************************************************************)
\* C18: every purge that finds outputs in outputs/ moves them into an
\* archive directory of its own, one that did not exist before, and leaves
\* outputs/ empty for the phases that follow.
C18_OwnArchivePerRun ==
  [][ (purges' = purges + 1 /\ outputs = "full") =>
        /\ archives[clock] = "none"
        /\ archives'[clock] = "one"
        /\ last_archived' = clock
        /\ outputs' = "empty" ]_vars

\* C19: a purge run on a folder that was purged and not written since
\* creates no archive and leaves outputs/, the archives, the bytecode caches
\* and temp/ as they were.
C19_PurgeIdempotent ==
  [][ (purges' = purges + 1 /\ streak >= 1) =>
        /\ last_archived' = NoArchive
        /\ archives' = archives
        /\ outputs' = outputs
        /\ pycache' = pycache
        /\ temp_items' = temp_items ]_vars

\* a purge archived the outputs it found and the purge run right after it
\* archived nothing
C19_Witness ==
  /\ streak = 2
  /\ purges = 2
  /\ outputs = "empty"
  /\ last_archived = NoArchive
  /\ \E t \in Seconds : archives[t] = "one"

(***************************************************************************)
(* Properties of the child environment (specification SpecEnv).            *)
(***************************************************************************)
\* the names an environment sets
SetNames(env) == { key \in DOMAIN env : env[key] # Unset }

\* the parents agree on every allow-listed name
AgreeOnAllowlist ==
  \A key \in ParentNames \cap base_allowlist :
    parent_env["a"][key] = parent_env["b"][key]

\* C20: the environment of a phase child sets only allow-listed names and
\* the two forced names, with the parent's value for the former and "1" for
\* the latter; two parents that agree on the allow-listed names build the
\* same child environment.
C20_ChildEnvFromAllowlistOnly ==
  /\ \A p \in built :
        /\ SetNames(child_env[p]) \subseteq base_allowlist \cup ForcedNames
        /\ \A key \in ForcedNames : child_env[p][key] = 1
        /\ \A key \in ParentNames \cap base_allowlist :
              child_env[p][key] = parent_env[p][key]
  /\ (built = Parents /\ AgreeOnAllowlist) => child_env["a"] = child_env["b"]

\* two parents that differ outside the allow-list only have built the same
\* child environment
C20_Witness ==
  /\ built = Parents
  /\ AgreeOnAllowlist
  /\ parent_env["a"]["PATH"] # Unset
  /\ parent_env["a"]["PYTHONPATH"] # parent_env["b"]["PYTHONPATH"]
  /\ parent_env["a"]["PYTHONDONTWRITEBYTECODE"]
       # parent_env["b"]["PYTHONDONTWRITEBYTECODE"]
  /\ child_env["a"] = child_env["b"]

(***************************************************************************)
(* Properties of the bibliography build (specifications SpecBib, SpecDoi). *)
(***************************************************************************)
\* a record has a DOI
HasDoi(rec) == normalize_doi(rec.doi) # << >>

\* the record of the build's input with the given key
RecordOfKey(key) ==
  CHOOSE rec \in { bib_records[i] : i \in 1..Len(bib_records) } :
    rec.citation_key = key

SurvivorKeys == { bib_survivors[i].citation_key : i \in 1..Len(bib_survivors) }

InputKeys == { bib_records[i].citation_key : i \in 1..Len(bib_records) }

\* C21: after a bibliography build no two surviving records have the same
\* normalized DOI, every record of the input that did not survive has its
\* key mapped, and every mapped key maps to the key of the surviving record
\* with the same normalized DOI.
C21_DedupedByNormalizedDoi ==
  bib_pc = "built" =>
    /\ \A i, j \in 1..Len(bib_survivors) :
         (i # j /\ HasDoi(bib_survivors[i])) =>
           normalize_doi(bib_survivors[i].doi)
             # normalize_doi(bib_survivors[j].doi)
    /\ SurvivorKeys \subseteq InputKeys
    /\ { pair[1] : pair \in bib_dropped } = InputKeys \ SurvivorKeys
    /\ \A pair \in bib_dropped :
         /\ pair[2] \in SurvivorKeys
         /\ normalize_doi(RecordOfKey(pair[1]).doi)
              = normalize_doi(RecordOfKey(pair[2]).doi)
    /\ \A p, q \in bib_dropped : p[1] = q[1] => p = q

\* a build that dropped a record whose DOI was written differently from the
\* survivor's
C21_Witness ==
  /\ bib_pc = "built"
  /\ \E pair \in bib_dropped :
       RecordOfKey(pair[1]).doi # RecordOfKey(pair[2]).doi

ProvidersCalled == [ i \in 1..Len(res_calls) |-> res_calls[i].provider ]

\* C22: the secondary provider is called only after the primary provider
\* was attempted and failed with an error other than NotFound, and the
\* attempts trail of the returned record lists the providers in the order
\* they were called, each with its outcome.
C22_FallbackOnlyAfterPrimaryError ==
  /\ \A i \in 1..Len(res_calls) :
       res_calls[i].provider = "openalex" =>
         /\ i = 2
         /\ res_calls[1].provider = "crossref"
         /\ res_calls[1].outcome = "error"
  /\ (res_pc = "done" /\ ~res_record.reused) =>
       /\ Len(res_record.attempts) = Len(res_calls)
       /\ \A i \in 1..Len(res_calls) :
            /\ res_record.attempts[i].provider = res_calls[i].provider
            /\ res_record.attempts[i].ok = (res_calls[i].outcome = "ok")

\* the primary provider failed with an error, the secondary one resolved
C22_Witness ==
  /\ res_pc = "done"
  /\ ProvidersCalled = << "crossref", "openalex" >>
  /\ res_record.attempts =
       << [ provider |-> "crossref", ok |-> FALSE ],
          [ provider |-> "openalex", ok |-> TRUE ] >>
  /\ res_record.provider_used = "openalex"

\* the last check of the existing record is fresh
ExistingFresh ==
  /\ res_existing.last_checked.kind = "time"
  /\ res_now - res_existing.last_checked.at <= res_max_age

\* C23: a verified record whose last check is fresh is returned unchanged
\* without any provider call; a record whose last_checked is missing,
\* unparseable or older than max_age_hours is verified again.
C23_FreshReusedStaleReverified ==
  res_pc = "done" =>
    /\ (res_existing.status = "verified" /\ ExistingFresh) =>
         /\ res_calls = << >>
         /\ res_record = [ res_existing EXCEPT !.reused = TRUE ]
    /\ (res_existing.status # "none" /\ ~ExistingFresh) =>
         /\ res_calls # << >>
         /\ res_calls[1].provider = "crossref"
         /\ ~res_record.reused

\* a verified record checked exactly max_age_hours ago was returned as it is
C23_Witness ==
  /\ res_pc = "done"
  /\ res_existing.status = "verified"
  /\ res_existing.last_checked.kind = "time"
  /\ res_now - res_existing.last_checked.at = res_max_age
  /\ res_record.reused
  /\ res_calls = << >>

(***************************************************************************)
(* Properties of the revision loop (specification SpecConv).               *)
(***************************************************************************)
\* C24: should_stop returns stop = true whenever the iteration number has
\* reached max_iterations, whatever the scores and issue counts, so the
\* loop never goes beyond iteration max_iterations.
C24_StopsAtMaxIterations ==
  /\ (conv_last.evaluated
        /\ conv_last.iteration >= conv_criteria.max_iterations)
       => conv_last.stop
  /\ conv_iteration <= conv_criteria.max_iterations
  /\ conv_last.iteration <= conv_criteria.max_iterations

\* the loop was stopped at the limit although critical issues remained and
\* the score was below the threshold
C24_Witness ==
  /\ conv_pc = "stopped"
  /\ conv_criteria.max_iterations > 1
  /\ conv_criteria.require_no_critical
  /\ conv_last.iteration = conv_criteria.max_iterations
  /\ conv_last.critical_count > 0
  /\ conv_last.current_score < conv_criteria.quality_threshold
  /\ conv_last.reason = "maximum"

(***************************************************************************)
(* Properties of the deliberation (specification SpecDelib).               *)
(***************************************************************************)
\* C25: two deliberations over the same (agent id, output) pairs give the
\* same consolidated_output, conflict_detected and degraded whatever the
\* order in which their agents completed, and conflict_detected is true
\* exactly when two outputs differ after whitespace normalization.
C25_ConsensusIndependentOfCompletionOrder ==
  /\ (delib_result[1].done /\ delib_result[2].done) =>
       delib_result[1] = delib_result[2]
  /\ \A r \in Runs :
       delib_result[r].done =>
         (delib_result[r].conflict_detected
            <=> \E a, b \in Agents :
                  NormalizeWhitespace(delib_outputs[a])
                    # NormalizeWhitespace(delib_outputs[b]))

\* two deliberations whose agents completed in different orders, with
\* conflicting outputs, both consolidated
C25_Witness ==
  /\ delib_result[1].done
  /\ delib_result[2].done
  /\ delib_collected[1] # delib_collected[2]
  /\ delib_result[1].conflict_detected

(***************************************************************************)
(* Properties of the numeric-consistency check (specification SpecNum).    *)
(***************************************************************************)
\* the values of the digit runs of a text that stand as numbers of their own
\* and are, or are not, directly followed by a percent sign
WrittenNumbers(text, with_percent) ==
  { text[i].value :
      i \in { j \in 1..Len(text) :
                /\ text[j].kind = "digits"
                /\ ~WordAt(text, j - 1)
                /\ IF with_percent
                     THEN j + 1 <= Len(text) /\ text[j + 1].kind = "percent"
                     ELSE ~WordAt(text, j + 1)
                          /\ ~(j + 1 <= Len(text)
                                 /\ text[j + 1].kind = "percent") } }

IsYear(value) == value \in 1900..2100

\* C26: a four-digit integer in [1900, 2100] without a % suffix in the claim
\* statement is left out of the comparison, while the same digits followed
\* by % are compared: the check fails unless the evidence has them, with
\* their %, as well.
C26_YearsExcludedUnlessPercent ==
  (num_pc = "checked" /\ num_enabled) =>
    /\ \A v \in WrittenNumbers(num_statement, FALSE) :
         IsYear(v) => Number(v, FALSE) \notin num_claim_nums
    /\ \A v \in WrittenNumbers(num_statement, TRUE) :
         (IsYear(v) /\ v \notin WrittenNumbers(num_evidence, TRUE))
           => ~num_ok

(***************************************************************************)
(* The artifact of a gate evaluation (specification SpecGate).             *)
(***************************************************************************)
\* C30: once the citation accuracy gate has been evaluated, whatever its
\* action, outputs/gates/citation_accuracy.json exists in the project folder
\* and holds the result that was returned.
C30_ResultWrittenToGatesFolder ==
  GateEvaluated =>
    [ path |-> "outputs/gates/citation_accuracy.json",
      content |-> gate_result ] \in gate_files

(***************************************************************************)
(* Properties of the BibTeX keys (specification SpecKey).                  *)
(***************************************************************************)
\* the keys given to the entries before entry i
EarlierKeys(i) == { bibtex_keys[j] : j \in 1..(i - 1) }

\* the k-th candidate base+a, base+b, ... of entry i
Candidate(i, k) == BaseKey(bibtex_citations[i]) \o Chr(ORD_A + k - 1)

\* C29: the keys of the entries are pairwise distinct; an entry whose base
\* key <FirstAuthorLastName><year> is free gets it, and an entry whose base
\* key is taken gets the first of base+a, base+b, ... that no earlier entry
\* has.
C29_KeysDistinctFirstUnusedSuffix ==
  /\ \A i, j \in 1..Len(bibtex_keys) :
       i # j => bibtex_keys[i] # bibtex_keys[j]
  /\ \A i \in 1..Len(bibtex_keys) :
       IF BaseKey(bibtex_citations[i]) \notin EarlierKeys(i)
         THEN bibtex_keys[i] = BaseKey(bibtex_citations[i])
         ELSE \E k \in 1..Len(bibtex_keys) :
                /\ bibtex_keys[i] = Candidate(i, k)
                /\ Candidate(i, k) \notin EarlierKeys(i)
                /\ \A m \in 1..(k - 1) : Candidate(i, m) \in EarlierKeys(i)

\* three entries with the same base key got base, base+a and base+b
C29_Witness ==
  /\ Len(bibtex_keys) = 3
  /\ bibtex_keys = << "Smith2020", "Smith2020a", "Smith2020b" >>

(***************************************************************************)
(* Properties of from_context (specification SpecCfg).                     *)
(***************************************************************************)
\* a float of the closed interval [0, 1]
InUnitInterval(x) == x.kind = "finite" /\ x.num >= 0 /\ x.num <= 1000

\* C31: for every context, from_context returns a configuration whose three
\* thresholds lie in [0, 1], whose max_evidence_items_per_claim is at least
\* 1 and whose on_failure is block or downgrade, block for every value
\* other than these two.
C31_FromContextSanitizes ==
  cfg_pc # "ready" =>
    /\ cfg_pc = "returned"
    /\ InUnitInterval(cfg_result.min_alignment_score)
    /\ InUnitInterval(cfg_result.min_keyword_overlap)
    /\ InUnitInterval(cfg_result.min_entity_overlap)
    /\ cfg_result.max_evidence_items_per_claim >= 1
    /\ cfg_result.on_failure \in { "block", "downgrade" }
    /\ (cfg_raw.on_failure \notin { "block", "downgrade" })
         => cfg_result.on_failure = "block"

(***************************************************************************)
(* Properties of the phase scripts (specification SpecScript).             *)
(***************************************************************************)
\* C32: when the workflow run by a phase script returns success = false,
\* the script exits with a non-zero code, the runner records the phase as
\* failed, and it halts if the phase is critical.
C32_FailedWorkflowFailsPhase ==
  (/\ script_pc = "recorded"
   /\ script_has_folder
   /\ ~workflow_result.raised
   /\ ~workflow_result.success)
    => /\ script_exit # 0
       /\ ~script_record.success
       /\ PIPELINE_PHASES[script_phase].is_critical => script_halted


(***************************************************************************)
(* Properties of the phases that follow a timed-out phase (specification   *)
(* SpecAfterTimeout).                                                      *)
(***************************************************************************)
\* the positions of the reasons of PhaseResult r that were read from the
\* output of r's phase
OwnReasons(r) ==
  { j \in 1..Len(r.degradation_reasons) :
      r.degradation_reasons[j][1] = r.phase_id }

\* C33: the degradation reasons of a PhaseResult come only from that
\* phase's own child output, and nothing observed during an earlier phase
\* makes a later phase degraded: a degraded result has a reason of its own
\* or is a failure with errors of its own.
C33_ResultFromOwnOutputOnly ==
  \A k \in 1..Len(phases) :
    /\ OwnReasons(phases[k]) = 1..Len(phases[k].degradation_reasons)
    /\ phases[k].degraded =>
         \/ OwnReasons(phases[k]) # {}
         \/ ~phases[k].success /\ phases[k].error_count > 0

(***************************************************************************)
(* Properties of verify_claim (specification SpecVer).                     *)
(***************************************************************************)
\* a number of the statement that is not a year without a percent sign is
\* not written, with the same suffix, in the evidence text
NonYearNumberMissing(statement, evidence_text) ==
  \/ \E v \in WrittenNumbers(statement, FALSE) :
       ~IsYear(v) /\ v \notin WrittenNumbers(evidence_text, FALSE)
  \/ \E v \in WrittenNumbers(statement, TRUE) :
       v \notin WrittenNumbers(evidence_text, TRUE)

\* C34: a checked claim is reported ok = false iff its keyword overlap is
\* below min_keyword_overlap, or entity overlap is enabled and below
\* min_entity_overlap, or numeric consistency is enabled and a non-year
\* number of the statement is missing from the evidence, or its composite
\* alignment score is below min_alignment_score.
C34_NotOkIffSomeCheckFails ==
  ver_pc = "verified" =>
    (~ver_report.ok <=>
       \/ ver_keyword_overlap < ver_cfg.min_keyword_overlap
       \/ ver_cfg.enable_entity_overlap
            /\ ver_entity_overlap < ver_cfg.min_entity_overlap
       \/ ver_cfg.enable_numeric_consistency
            /\ NonYearNumberMissing(ver_statement, ver_evidence)
       \/ ver_report.alignment_score < ver_cfg.min_alignment_score)


(***************************************************************************)
(* The dedup entry of an ended search (specification SpecLit).             *)
(***************************************************************************)
\* call c, submitted to the provider, returns in this step
SearchEnds(c) ==
  /\ calls[c].st \in { "finally_in_lock", "sync_awaiting" }
  /\ calls'[c].st = "done"

\* the calls with the fingerprint of c that were submitted and have ended
PriorEnded(c) ==
  { d \in PriorSubmitted(c) : calls[d].ended_at # Absent }

\* C35: when a search that was submitted to the provider ends, completed or
\* failed, its fingerprint is in the dedup map stamped with the end time,
\* and a query with the fingerprint of a search that ended at most 30
\* minutes ago is blocked as duplicate.
C35_EndedSearchKeepsEntry ==
  [][ \A c \in Calls :
        /\ SearchEnds(c) => active_requests'[calls[c].query_hash] = now
        /\ (/\ calls[c].st = "in_lock" /\ calls'[c].st # "in_lock"
            /\ \E d \in PriorEnded(c) :
                 now - calls[d].ended_at <= DEDUP_WINDOW)
             => calls'[c].error = "Duplicate request blocked" ]_vars

(***************************************************************************)
(* Properties of the provider response (specification SpecNorm).           *)
(***************************************************************************)
\* C36: when the provider returns a list of responses, the response text,
\* the citations and the job_id of the LiteratureResult are those of the
\* first element of the list.
C36_FieldsFromFirstElement ==
  (/\ norm_pc = "returned"
   /\ task_response.kind = "list"
   /\ Len(task_response.items) > 0) =>
    LET first == task_response.items[1]
    IN /\ literature_result.response =
            (IF first.formatted_answer # "" THEN first.formatted_answer
             ELSE first.answer)
       /\ literature_result.citations = first.citations
       /\ literature_result.job_id = first.id

(***************************************************************************)
(* The totals of a gate result (specification SpecGate).                   *)
(***************************************************************************)
\* the reports of the result that were checked and are not ok
FailedReports ==
  { k \in 1..Len(gate_result.reports) :
      gate_result.reports[k].checked /\ ~gate_result.reports[k].ok }

\* C37: in every result of the enabled gate the number of reports equals
\* checked_claims_total + skipped_missing_evidence_total,
\* failed_claims_total is at most checked_claims_total, and
\* failed_claims_total is the number of reports with checked = true and
\* ok = false.
C37_TotalsMatchReports ==
  (GateEvaluated /\ gate_result.enabled) =>
    /\ Len(gate_result.reports) =
         gate_result.checked_claims_total
           + gate_result.skipped_missing_evidence_total
    /\ gate_result.failed_claims_total <= gate_result.checked_claims_total
    /\ gate_result.failed_claims_total = Cardinality(FailedReports)

\* an enabled gate returned one skipped claim and one failed claim
C37_Witness ==
  /\ GateEvaluated
  /\ gate_result.enabled
  /\ gate_result.skipped_missing_evidence_total = 1
  /\ gate_result.checked_claims_total = 1
  /\ gate_result.failed_claims_total = 1

(***************************************************************************)
(* Properties of the critical review (specification SpecReview).           *)
(***************************************************************************)
\* the review produced no parsed verdict: the call failed, or the response
\* holds no JSON that can be parsed
NoParsedVerdict ==
  \/ review_content = ""
  \/ claude_outcome.raised
  \/ claude_outcome.response.json # "object"
  \/ ~claude_outcome.response.scores_is_object

\* C38: when the critical review cannot produce a parsed verdict, the
\* feedback returned has revision_required = true.
C38_BrokenReviewRequiresRevision ==
  (review_pc = "returned" /\ NoParsedVerdict)
    => review_feedback.revision_required = TRUE

\* a review whose response held no JSON has returned its feedback
C38_Witness ==
  /\ review_pc = "returned"
  /\ review_content # ""
  /\ ~claude_outcome.raised
  /\ claude_outcome.response.json = "none"
  /\ review_feedback.summary = "Unable to parse review response"

(***************************************************************************)
(* Properties of the injection into main.tex (specification SpecPaper).    *)
(***************************************************************************)
\* the marker of the introduction or of the references is not in the text
RequiredMarkerMissing(text) ==
  Find(text, "intro_marker") = 0 \/ Find(text, "refs_marker") = 0

\* the text holds the three AUTOGEN begin markers
AlreadyInjected(text) ==
  \A marker \in AutogenBeginMarkers : HasAutogen(text, marker)

\* applying the function to the text it produced returns that text
\* unchanged with changed = false
InjectionIdempotent ==
  \A k \in 2..Len(inject_results) :
    /\ inject_results[k].input = inject_results[k - 1].output
    /\ inject_results[k].output = inject_results[k].input
    /\ ~inject_results[k].changed

\* C39 (as stated): the injection is idempotent, and when a required marker
\* is missing the input is returned unchanged with an error code.
C39_IdempotentAndErrorOnMissingMarker ==
  /\ InjectionIdempotent
  /\ \A k \in 1..Len(inject_results) :
       RequiredMarkerMissing(inject_results[k].input)
         => /\ inject_results[k].output = inject_results[k].input
            /\ inject_results[k].error # None

\* C39 (amended): the injection is idempotent; a text that already holds
\* the three AUTOGEN begin markers is returned unchanged without an error
\* code, and any other text in which a required marker is missing is
\* returned unchanged with an error code.
C39_IdempotentAndErrorUnlessInjected ==
  /\ InjectionIdempotent
  /\ \A k \in 1..Len(inject_results) :
       LET r == inject_results[k]
       IN /\ AlreadyInjected(r.input)
               => r.output = r.input /\ ~r.changed /\ r.error = None
          /\ (~AlreadyInjected(r.input) /\ RequiredMarkerMissing(r.input))
               => /\ r.output = r.input
                  /\ ~r.changed
                  /\ r.error \in { "intro_marker_not_found",
                                   "refs_marker_not_found" }

\* a main.tex was patched and then assembled again
C39_Witness ==
  /\ Len(inject_results) = 2
  /\ inject_results[1].changed
  /\ RequiredMarkerMissing(inject_results[2].input)
  /\ inject_results[2].output = inject_results[1].output

====
